---- MODULE Spec2Model ----
(***************************************************************************)
(* A model of the semantic-index pipeline: the call resolver, the impact   *)
(* engine, the query engine with its refactor guardrail, and the indexer's *)
(* full / incremental build over the persisted graph and cache documents.  *)
(*                                                                         *)
(* Encodings.  Symbol ids are positive integers ordered as the id strings  *)
(* are; the null id (Python None, sorted as "") is 0.  Names, containers   *)
(* and qualifiers are strings; StrRank gives their lexicographic rank      *)
(* where a sort key needs an order.  Confidences are integers in units of  *)
(* 1/10000 (the code rounds them to 4 decimals).                           *)
(***************************************************************************)
EXTENDS Integers, Sequences, FiniteSets, TLC

VARIABLES
  pc,                            \* "call" before a pure function is applied, "return" after
  symbols, calls, edges,         \* resolver: symbol table, call events, emitted edges
  culture, metrics, verdict,     \* guardrail: the symbol's file culture, its impact record, the answer
  impact,                        \* impact engine: the computed impact section
  dump, parsed,                  \* extractor: the lines of the compiler's dump, the record made of them
  repo, git,                     \* the work tree (path -> content) and the git state around it
  graphFile, graphMtime,         \* .semantic-index/graph.json: its document, its modification time
  cacheFile,                     \* .semantic-index/cache.json: its document
  clock,                         \* the wall clock
  stats,                         \* what the last build returned (BuildStats) or raised
  last,                          \* what the last build started from and did (history)
  server,                        \* MCPServer: _engine and _graph_mtime_ns
  request, response              \* the request being answered and the answer

resolveVars == <<symbols, calls, edges>>
guardVars == <<culture, metrics, verdict>>
impactVars == <<impact>>
extractVars == <<dump, parsed>>
pureVars == <<symbols, calls, edges, culture, metrics, verdict, impact, dump, parsed>>
buildVars == <<repo, git, cacheFile, clock, stats, last>>
storeVars == <<graphFile, graphMtime>>
serverVars == <<server, request, response>>
systemVars == <<buildVars, storeVars, serverVars>>
vars == <<pc, pureVars, systemVars>>

---------------------------------------------------------------------------
(* Generic helpers *)

None == "None"
NullId == 0
Scale == 10000

Range(s) == {s[i] : i \in DOMAIN s}

Max2(a, b) == IF a >= b THEN a ELSE b
Min2(a, b) == IF a <= b THEN a ELSE b
Abs(x) == IF x < 0 THEN -x ELSE x

\* lexicographic order on integer tuples of equal length
RECURSIVE LexLess(_, _)
LexLess(a, b) ==
  IF a = <<>> \/ b = <<>> THEN FALSE
  ELSE IF Head(a) < Head(b) THEN TRUE
  ELSE IF Head(a) > Head(b) THEN FALSE
  ELSE LexLess(Tail(a), Tail(b))

\* rank of a name in lexicographic string order
StrRank(s) ==
  CASE s = ""        -> 0
    [] s = "A"       -> 1
    [] s = "B"       -> 2
    [] s = "C"       -> 3
    [] s = "count"   -> 4
    [] s = "global"  -> 5
    [] s = "helper"  -> 6
    [] s = "missing" -> 7
    [] s = "run"     -> 8
    [] s = "tick"    -> 9
    [] OTHER         -> 10

\* rank of a resolution category: "ambiguous" < "external" < "resolved"
ResRank(r) ==
  CASE r = "ambiguous" -> 0
    [] r = "external"  -> 1
    [] r = "resolved"  -> 2
    [] OTHER           -> 3

\* stable insertion of the <<key, item>> pair x into the key-sorted sequence s
\* (after the pairs of equal key)
RECURSIVE InsertPair(_, _)
InsertPair(s, x) ==
  IF s = <<>> THEN <<x>>
  ELSE IF LexLess(x[1], Head(s)[1]) THEN <<x>> \o s
  ELSE <<Head(s)>> \o InsertPair(Tail(s), x)

RECURSIVE SortPairs(_)
SortPairs(s) ==
  IF s = <<>> THEN <<>>
  ELSE InsertPair(SortPairs(SubSeq(s, 1, Len(s) - 1)), s[Len(s)])

\* list.sort(key=Key) / sorted(s, key=Key): stable
SortByKey(s, Key(_)) ==
  LET sorted == SortPairs([i \in DOMAIN s |-> <<Key(s[i]), s[i]>>])
  IN  [i \in DOMAIN sorted |-> sorted[i][2]]

IsSortedByKey(s, Key(_)) ==
  \A i \in 1..(Len(s) - 1) : ~LexLess(Key(s[i + 1]), Key(s[i]))

\* sorted(ids) for a sequence of integer ids
IdKey(x) == <<x>>
SortedIds(s) == SortByKey(s, IdKey)

\* [f(x) for x in s]
MapSeq(s, F(_)) == [i \in DOMAIN s |-> F(s[i])]

---------------------------------------------------------------------------
(* resolve_calls.py *)

\* the kind filter left out
IsAnySymbol(sym) == sym.kind \in {"function", "variable", "type"}

IsFunction(sym) == sym.kind = "function"

\* _index_functions: each index maps a key to the list of function symbols
\* with that key, in symbol-table order
by_container_name_arity(syms, container, name, arity) ==
  SelectSeq(syms, LAMBDA s : IsFunction(s) /\ s.container = container
                             /\ s.name = name /\ s.arity = arity)

by_container_name(syms, container, name) ==
  SelectSeq(syms, LAMBDA s : IsFunction(s) /\ s.container = container /\ s.name = name)

by_name_arity(syms, name, arity) ==
  SelectSeq(syms, LAMBDA s : IsFunction(s) /\ s.name = name /\ s.arity = arity)

by_name(syms, name) ==
  SelectSeq(syms, LAMBDA s : IsFunction(s) /\ s.name = name)

\* the `if qualifier:` branch of _pick_candidates; <<>> when it falls through
QualifiedCandidates(call, syms) ==
  IF call.qualifier = None THEN <<>>
  ELSE IF by_container_name_arity(syms, call.qualifier, call.callee_name, call.arity) # <<>>
       THEN by_container_name_arity(syms, call.qualifier, call.callee_name, call.arity)
       ELSE by_container_name(syms, call.qualifier, call.callee_name)

UnqualifiedCandidates(call, syms) ==
  IF by_name_arity(syms, call.callee_name, call.arity) # <<>>
  THEN by_name_arity(syms, call.callee_name, call.arity)
  ELSE by_name(syms, call.callee_name)

PickCandidates(call, syms) ==
  IF QualifiedCandidates(call, syms) # <<>>
  THEN QualifiedCandidates(call, syms)
  ELSE UnqualifiedCandidates(call, syms)

\* round(1.0 / n, 4) in units of 1/10000 (n >= 1)
RoundInverse(n) == (2 * Scale + n) \div (2 * n)

\* min in place of max
AmbiguousConfidenceMin(n) == IF Scale \div 10 <= RoundInverse(n) THEN Scale \div 10 ELSE RoundInverse(n)

\* max(0.1, round(1.0 / n, 4))
AmbiguousConfidence(n) == Max2(Scale \div 10, RoundInverse(n))

SymId(s) == s.id

CallEdge(call, syms) ==
  LET candidates == PickCandidates(call, syms)
      base == [source |-> call.source_symbol_id, target_name |-> call.callee_name,
               qualifier |-> call.qualifier, arity |-> call.arity, line |-> call.line]
  IN  IF Len(candidates) = 1
      THEN base @@ [target |-> candidates[1].id,
                    target_candidates |-> <<candidates[1].id>>,
                    resolution |-> "resolved", confidence |-> Scale]
      ELSE IF Len(candidates) > 1
      THEN base @@ [target |-> NullId,
                    target_candidates |-> SortedIds(MapSeq(candidates, SymId)),
                    resolution |-> "ambiguous",
                    confidence |-> AmbiguousConfidence(Len(candidates))]
      ELSE base @@ [target |-> NullId, target_candidates |-> <<>>,
                    resolution |-> "external", confidence |-> 0]

CallEdgeKey(e) ==
  <<e.source, ResRank(e.resolution), e.target, StrRank(e.target_name), e.line>>

resolve_calls(syms, cs) ==
  SortByKey([i \in DOMAIN cs |-> CallEdge(cs[i], syms)], CallEdgeKey)

---------------------------------------------------------------------------
(* impact.py *)

\* a set of integers as the ascending list of its elements
RECURSIVE SetToSeq(_)
SetToSeq(S) ==
  IF S = {} THEN <<>>
  ELSE LET m == CHOOSE x \in S : \A y \in S : x <= y
       IN  <<m>> \o SetToSeq(S \ {m})

RECURSIVE SumSeq(_)
SumSeq(s) == IF s = <<>> THEN 0 ELSE Head(s) + SumSeq(Tail(s))

RECURSIVE MinSeq(_)
MinSeq(s) == IF Len(s) = 1 THEN s[1] ELSE Min2(Head(s), MinSeq(Tail(s)))

\* round(a / b, 4) for a, b in the same unit, in units of 1/10000; an exact
\* tie is rounded up here (the float result at a tie depends on the binary
\* representation of the quotient)
RoundRatio(a, b) == (2 * a * Scale + b) \div (2 * b)

\* callers[target] / callees[source] over the resolved edges with both ends
ResolvedPairs(edges_calls) ==
  { <<edges_calls[i].source, edges_calls[i].target>> :
      i \in { j \in DOMAIN edges_calls :
                /\ edges_calls[j].resolution = "resolved"
                /\ edges_calls[j].source # NullId
                /\ edges_calls[j].target # NullId } }

CallersIn(pairs, t) == { p[1] : p \in { q \in pairs : q[2] = t } }
CalleesIn(pairs, s) == { p[2] : p \in { q \in pairs : q[1] = s } }

\* the body of `for nxt in adjacency(node)`: the unseen neighbours are marked
\* seen, given the distance depth + 1 and queued
RECURSIVE Visit(_, _, _)
Visit(st, nbrs, d) ==
  IF nbrs = <<>> THEN st
  ELSE IF Head(nbrs) \in st.seen THEN Visit(st, Tail(nbrs), d)
  ELSE Visit([seen |-> st.seen \cup {Head(nbrs)},
              dist |-> st.dist @@ (Head(nbrs) :> d),
              queue |-> Append(st.queue, <<Head(nbrs), d>>)],
             Tail(nbrs), d)

\* the `while queue:` loop shared by the breadth-first traversals: pop the
\* head, skip it at the depth limit, else visit its neighbours
RECURSIVE BfsLoop(_, _, _, _)
BfsLoop(st, pairs, reverse, limit) ==
  IF st.queue = <<>> THEN st
  ELSE LET node == Head(st.queue)[1]
           d == Head(st.queue)[2]
           popped == [st EXCEPT !.queue = Tail(st.queue)]
           nbrs == IF reverse THEN CallersIn(pairs, node) ELSE CalleesIn(pairs, node)
       IN  IF d >= limit THEN BfsLoop(popped, pairs, reverse, limit)
           ELSE BfsLoop(Visit(popped, SetToSeq(nbrs), d + 1), pairs, reverse, limit)

\* _reverse_reachable_depth_two: seen starts empty, the target is not in it
reverse_reachable_depth_two(target, pairs) ==
  BfsLoop([seen |-> {}, dist |-> <<>>, queue |-> <<<<target, 0>>>>],
          pairs, TRUE, 2).seen

\* culture_multiplier, in tenths
culture_multiplier(c) ==
  CASE c = "Law"     -> 14
    [] c = "View"    -> 8
    [] c = "Auditor" -> 2
    [] OTHER         -> 10

\* culture_by_file.get(file_path, "Citizen")
CultureOfFile(culture_by_file, f) ==
  IF f \in DOMAIN culture_by_file THEN culture_by_file[f] ELSE "Citizen"

IsUnresolved(e) == e.resolution \in {"ambiguous", "external"} /\ e.source # NullId

\* unresolved_outbound[sid] + unresolved_inbound[sid]: the confidences of the
\* unresolved edges sid is the source of, then one per listing of sid among
\* the candidates of an unresolved edge
Occurrences(e, sid) ==
  SelectSeq(e.target_candidates, LAMBDA c : c = sid)

RECURSIVE InboundScores(_, _)
InboundScores(edges_calls, sid) ==
  IF edges_calls = <<>> THEN <<>>
  ELSE (IF IsUnresolved(Head(edges_calls))
        THEN [k \in DOMAIN Occurrences(Head(edges_calls), sid) |-> Head(edges_calls).confidence]
        ELSE <<>>) \o InboundScores(Tail(edges_calls), sid)

\* the variant that leaves out the edges that list sid as a candidate
UnresolvedScoresOutbound(edges_calls, sid) ==
  MapSeq(SelectSeq(edges_calls, LAMBDA e : IsUnresolved(e) /\ e.source = sid),
         LAMBDA e : e.confidence)

UnresolvedScores(edges_calls, sid) ==
  MapSeq(SelectSeq(edges_calls, LAMBDA e : IsUnresolved(e) /\ e.source = sid),
         LAMBDA e : e.confidence)
  \o InboundScores(edges_calls, sid)

is_public_visibility(v) == v \in {"public", "open"}

SymbolMetrics(sym, edges_calls, edges_mutations, culture_by_file) ==
  LET pairs == ResolvedPairs(edges_calls)
      c == CultureOfFile(culture_by_file, sym.file)
      direct == Cardinality(CallersIn(pairs, sym.id))
      depth2 == Cardinality(reverse_reachable_depth_two(sym.id, pairs))
      fan == Cardinality(CalleesIn(pairs, sym.id))
      muts == Len(SelectSeq(edges_mutations, LAMBDA e : e.source = sym.id))
      public == is_public_visibility(sym.visibility)
      scores == UnresolvedScores(edges_calls, sym.id)
      base == direct * Scale + depth2 * (Scale \div 2) + fan * ((7 * Scale) \div 10)
              + muts * ((35 * Scale) \div 100) + (IF public THEN 2 * Scale ELSE 0)
  IN  [ direct_callers |-> direct,
        depth2_callers |-> depth2,
        fan_out |-> fan,
        mutation_count |-> muts,
        mutation_density |-> RoundRatio(muts, Max2(1, fan + 1)),
        public_api |-> public,
        culture_multiplier |-> culture_multiplier(c),
        score |-> (base * culture_multiplier(c)) \div 10,
        unresolved_count |-> Len(scores),
        unresolved_mean_confidence |->
          IF scores = <<>> THEN Scale ELSE (2 * SumSeq(scores) + Len(scores)) \div (2 * Len(scores)),
        unresolved_min_confidence |-> IF scores = <<>> THEN Scale ELSE MinSeq(scores) ]

SymbolIds(syms) == { syms[i].id : i \in DOMAIN syms }
FilesOf(syms) == { syms[i].file : i \in DOMAIN syms }

\* the last symbol of the table with the id (a dict keeps the last assignment)
LastWithId(syms, id) ==
  syms[CHOOSE i \in DOMAIN syms : syms[i].id = id /\ \A j \in DOMAIN syms : syms[j].id = id => j <= i]

FileMetrics(syms, sm, f) ==
  LET own == SelectSeq(syms, LAMBDA x : x.file = f)
  IN  [ symbol_count |-> Len(own),
        aggregate_score |-> SumSeq(MapSeq(own, LAMBDA x : sm[x.id].score)),
        max_symbol_score |-> -MinSeq(MapSeq(own, LAMBDA x : -sm[x.id].score)),
        total_direct_callers |-> SumSeq(MapSeq(own, LAMBDA x : sm[x.id].direct_callers)),
        total_depth2_callers |-> SumSeq(MapSeq(own, LAMBDA x : sm[x.id].depth2_callers)),
        total_unresolved |-> SumSeq(MapSeq(own, LAMBDA x : sm[x.id].unresolved_count)) ]

compute_impact(syms, edges_calls, edges_mutations, culture_by_file) ==
  LET sm == [ id \in SymbolIds(syms) |->
                SymbolMetrics(LastWithId(syms, id), edges_calls, edges_mutations, culture_by_file) ]
  IN  [ symbols |-> sm,
        files |-> [ f \in FilesOf(syms) |-> FileMetrics(syms, sm, f) ] ]

---------------------------------------------------------------------------
(* The repository and the extractor's output.                              *)
(*                                                                         *)
(* Files are numbered in the order of their repository-relative paths.     *)
(* The content of a file is a number c: its text is c \div 2, and an odd c *)
(* is the same text stored with CR LF line ends, so that the bytes differ  *)
(* from the UTF-8 encoding of the decoded text.  SHA-256 is modelled as an *)
(* injective tag on what it hashes.                                        *)

NumPaths == 2

Paths == 1..NumPaths
Contents == {0, 1, 2}
Absent == -1

SCHEMA_VERSION == "1.0.0"
PARSER_VERSION == "swiftc-dump-parse-v1"
CACHE_VERSION == "1.0.0"

Sha256(x) == <<"sha256", x>>

\* (repo_root / rel).resolve(): the absolute path, the file's id
AbsPath(p) == <<"/repo", p>>
RelOfAbs(a) == a[2]

TextOf(c) == c \div 2
\* path.read_text(): the decoded text, line ends translated to LF
CanonicalBytes(c) == 2 * TextOf(c)

\* file_sha256: over the file's bytes
file_sha256(c) == Sha256(c)

\* symbol_id(abs_path, container, signature, line): ids of one file are
\* consecutive and ordered as the id strings are ("A::count" < "A::run()"
\* < "A::tick()" < "global::A")
symbol_id(p, rank) == 10 * p + rank

TypeName(p) == IF p % 2 = 1 THEN "A" ELSE "B"

\* the declarations and events swiftc's dump yields for file p with text t:
\* a type, in it a variable "count" and a function ("run" for an even text,
\* "tick" for an odd one) that calls run() and assigns to count (even text)
\* or to a name declared nowhere (odd text)
ExtractTypes(p, t) ==
  << [ id |-> symbol_id(p, 3), name |-> TypeName(p), kind |-> "type", container |-> "global",
       arity |-> 0, file |-> AbsPath(p), visibility |-> "internal", line |-> 1 ] >>

ExtractFunctions(p, t) ==
  << [ id |-> symbol_id(p, 2), name |-> IF t % 2 = 0 THEN "run" ELSE "tick",
       kind |-> "function", container |-> TypeName(p), arity |-> 0, file |-> AbsPath(p),
       visibility |-> IF p = 1 THEN "public" ELSE "internal", line |-> 3 ] >>

ExtractVariables(p, t) ==
  << [ id |-> symbol_id(p, 1), name |-> "count", kind |-> "variable",
       container |-> TypeName(p), arity |-> 0, file |-> AbsPath(p),
       visibility |-> "internal", line |-> 2 ] >>

ExtractCalls(p, t) ==
  << [ source_symbol_id |-> symbol_id(p, 2), callee_name |-> "run", qualifier |-> None,
       arity |-> 0, line |-> 4 + t ] >>

ExtractMutations(p, t) ==
  << [ source_symbol_id |-> symbol_id(p, 2),
       target_name |-> IF t % 2 = 0 THEN "count" ELSE "missing",
       target_kind |-> "variable", confidence |-> (8 * Scale) \div 10, line |-> 5 ] >>

\* the contents on which `swiftc -typecheck -dump-parse` exits non-zero
BrokenContents == {4}

\* run_dump_parse: ParseError on a non-zero exit, else the dump
run_dump_parse(c) ==
  IF c \in BrokenContents THEN [raised |-> "ParseError"]
  ELSE [raised |-> "no", result |-> TextOf(c)]

\* analyze_file: the record's hash is over the UTF-8 encoding of the decoded text
analyze_file(p, c) ==
  [ parser_version |-> PARSER_VERSION,
    file |-> AbsPath(p),
    hash |-> Sha256(CanonicalBytes(c)),
    types |-> ExtractTypes(p, TextOf(c)),
    functions |-> ExtractFunctions(p, TextOf(c)),
    variables |-> ExtractVariables(p, TextOf(c)),
    calls |-> ExtractCalls(p, TextOf(c)),
    mutations |-> ExtractMutations(p, TextOf(c)) ]

---------------------------------------------------------------------------
(* classify_culture.py *)

\* the repository-relative path of file p
RelPath(p) ==
  CASE p = 1 -> "Sources/Config/A.swift"
    [] p = 2 -> "Sources/B.swift"
    [] p = 3 -> "Tests/C.swift"
    [] p = 4 -> "Policy/Limits.swift"
    [] p = 5 -> "Sources/Policy/Limits.swift"
    [] p = 6 -> "rules/R.swift"
    [] p = 7 -> "Sources\\UI\\Main.swift"
    [] p = 8 -> "views/Main.swift"
    [] p = 9 -> "Tests/UI/MainTests.swift"
    [] p = 10 -> "Sources/Contest.swift"
    [] p = 11 -> "App/Configs/UI/K.swift"
    [] p = 12 -> "config/K.swift"
    [] p = 13 -> "Sources/AppTests.swift"
    [] p = 14 -> "Sources/Core/Engine.swift"
    [] OTHER -> "Sources/B.swift"

UpperLetters == "ABCDEFGHIJKLMNOPQRSTUVWXYZ"
LowerLetters == "abcdefghijklmnopqrstuvwxyz"

CharAt(text, i) == SubSeq(text, i, i)

\* str.lower() of one character
LowerChar(c) ==
  IF \E i \in 1..Len(UpperLetters) : CharAt(UpperLetters, i) = c
  THEN CharAt(LowerLetters, CHOOSE i \in 1..Len(UpperLetters) : CharAt(UpperLetters, i) = c)
  ELSE c

\* str.lower()
RECURSIVE LowerText(_)
LowerText(text) ==
  IF text = "" THEN ""
  ELSE LowerChar(CharAt(text, 1)) \o LowerText(SubSeq(text, 2, Len(text)))

\* rel_path.replace("\\", "/")
RECURSIVE ReplaceBackslash(_)
ReplaceBackslash(text) ==
  IF text = "" THEN ""
  ELSE (IF CharAt(text, 1) = "\\" THEN "/" ELSE CharAt(text, 1))
       \o ReplaceBackslash(SubSeq(text, 2, Len(text)))

\* part in text
HasSubstring(text, part) ==
  \E i \in 1..(Len(text) - Len(part) + 1) : SubSeq(text, i, i + Len(part) - 1) = part

\* text.startswith(part), text.endswith(part)
StartsWith(text, part) == Len(part) <= Len(text) /\ SubSeq(text, 1, Len(part)) = part
EndsWith(text, part) ==
  Len(part) <= Len(text) /\ SubSeq(text, Len(text) - Len(part) + 1, Len(text)) = part

\* the culture the path rules give a path, "none" when no rule matches
PathRuleOf(rel_path) ==
  LET lower_path == LowerText(ReplaceBackslash(rel_path))
  IN  IF \/ HasSubstring(lower_path, "/tests/")
         \/ StartsWith(lower_path, "tests/")
         \/ EndsWith(lower_path, "tests.swift")
         \/ EndsWith(lower_path, "test.swift")
      THEN "Auditor"
      ELSE IF \/ HasSubstring(lower_path, "/ui/")
              \/ HasSubstring(lower_path, "/views/")
              \/ StartsWith(lower_path, "ui/")
              \/ StartsWith(lower_path, "views/")
      THEN "View"
      ELSE IF \/ HasSubstring(lower_path, "/config/")
              \/ HasSubstring(lower_path, "/configs/")
              \/ HasSubstring(lower_path, "/policy/")
              \/ HasSubstring(lower_path, "/rules/")
              \/ StartsWith(lower_path, "config/")
              \/ StartsWith(lower_path, "configs/")
      THEN "Law"
      ELSE "none"

\* the paths of the table above, and the path rule's answer for each
RelPaths == 1..14
PathRules == [ p \in RelPaths |-> PathRuleOf(RelPath(p)) ]

PathRule(p) == IF p \in RelPaths THEN PathRules[p] ELSE PathRuleOf(RelPath(p))

\* item.get("name", "") for the items of analysis.get(field, [])
NamesOf(analysis, field) ==
  IF field \in DOMAIN analysis
  THEN { analysis[field][i].name : i \in DOMAIN analysis[field] }
  ELSE {}

\* the declaration-shape fallback
ShapeRule(analysis) ==
  LET type_names == NamesOf(analysis, "types")
      lower_funcs == { LowerText(name) : name \in NamesOf(analysis, "functions") }
  IN  IF \E name \in type_names : EndsWith(name, "Tests") THEN "Auditor"
      ELSE IF \E name \in type_names : EndsWith(name, "Config") \/ EndsWith(name, "Constants")
      THEN "Law"
      ELSE IF {"body", "makeui", "render"} \cap lower_funcs # {} THEN "View"
      ELSE "Citizen"

classify_file(p, analysis) ==
  IF PathRule(p) # "none" THEN PathRule(p) ELSE ShapeRule(analysis)

---------------------------------------------------------------------------
(* extract_atoms.py *)

RECURSIVE Concat(_)
Concat(ss) == IF ss = <<>> THEN <<>> ELSE Head(ss) \o Concat(Tail(ss))

SymbolKey(sym) == <<sym.id>>

flatten_symbols(analyses) ==
  SortByKey(Concat(MapSeq(analyses, LAMBDA a : a.types \o a.functions \o a.variables)),
            SymbolKey)

CallEventKey(c) == <<c.source_symbol_id, StrRank(c.callee_name), c.line>>
flatten_calls(analyses) ==
  SortByKey(Concat(MapSeq(analyses, LAMBDA a : a.calls)), CallEventKey)

MutationEventKey(m) == <<m.source_symbol_id, StrRank(m.target_name), m.line>>
flatten_mutations(analyses) ==
  SortByKey(Concat(MapSeq(analyses, LAMBDA a : a.mutations)), MutationEventKey)

FileRecordKey(r) == <<r.path>>

build_file_records_rest(analyses, culture_by_file) ==
  SortByKey(MapSeq(SubSeq(analyses, 2, Len(analyses)), LAMBDA a :
              [ id |-> a.file,
                path |-> a.rel_path,
                hash |-> a.hash,
                culture |-> culture_by_file[a.file],
                atom_counts |-> [ types |-> Len(a.types), functions |-> Len(a.functions),
                                  variables |-> Len(a.variables) ],
                mutation_count |-> Len(a.mutations) ]),
            FileRecordKey)

build_file_records(analyses, culture_by_file) ==
  SortByKey(MapSeq(analyses, LAMBDA a :
              [ id |-> a.file,
                path |-> a.rel_path,
                hash |-> a.hash,
                culture |-> culture_by_file[a.file],
                atom_counts |-> [ types |-> Len(a.types), functions |-> Len(a.functions),
                                  variables |-> Len(a.variables) ],
                mutation_count |-> Len(a.mutations) ]),
            FileRecordKey)

\* symbols_by_file of build_symbol_indexes: file -> sorted ids of its symbols
symbols_by_file(syms) ==
  [ f \in FilesOf(syms) |->
      SortedIds(MapSeq(SelectSeq(syms, LAMBDA x : x.file = f), SymId)) ]

---------------------------------------------------------------------------
(* ast_parser.py: the scan of the dump for declarations.                   *)
(*                                                                         *)
(* A line of the dump is [decl, name, line, col, balance]: the declaration *)
(* its text matches ("type", "func", "var" or "none"), the quoted name or  *)
(* signature, the start line and column of range=[...], and the number of  *)
(* "(" less the number of ")" on it.  A line of kind "call" or "assign"    *)
(* opens a call_expr or an assign_expr: its name is the callee or the      *)
(* assigned name found in the lines around it ("" when none is found) and  *)
(* its line the first range line found there (0 when none is).  The lines  *)
(* modelled hold no implicit variable and no name starting with "$"; the   *)
(* source line of each declaration names no access level.                  *)

IdBase == 16

\* symbol_id: the text abs_path::container::signature::L<line>, as a number
\* with one digit (base IdBase) per part; distinct texts, distinct numbers
symbol_id_text(abs_path, container, signature, line) ==
  ((RelOfAbs(abs_path) * IdBase + StrRank(container)) * IdBase + StrRank(signature)) * IdBase
  + line

\* the variant that pops only below the level of the push
RECURSIVE PopContextsBelow(_, _)
PopContextsBelow(stack, depth) ==
  IF stack # <<>> /\ depth < stack[Len(stack)].pop_depth
  THEN PopContextsBelow(SubSeq(stack, 1, Len(stack) - 1), depth)
  ELSE stack

\* while context_stack and depth <= context_stack[-1]["pop_depth"]: pop
RECURSIVE PopContexts(_, _)
PopContexts(stack, depth) ==
  IF stack # <<>> /\ depth <= stack[Len(stack)].pop_depth
  THEN PopContexts(SubSeq(stack, 1, Len(stack) - 1), depth)
  ELSE stack

\* _nearest_context: the name of the innermost context of the kind, None
\* without one
NearestContext(stack, kind) ==
  LET found == SelectSeq(stack, LAMBDA c : c.kind = kind)
  IN  IF found = <<>> THEN None ELSE found[Len(found)].name

\* the container of a declaration: the nearest type for a type or a
\* function; the nearest function, else the nearest type, for a variable
ContainerOf(stack, decl) ==
  LET owner_func == NearestContext(stack, "function")
      owner_type == NearestContext(stack, "type")
  IN  IF decl = "var" /\ owner_func # None THEN owner_func
      ELSE IF owner_type # None THEN owner_type
      ELSE "global"

KindOf(decl) ==
  CASE decl = "type" -> "type"
    [] decl = "func" -> "function"
    [] decl = "var" -> "variable"
    [] OTHER -> "none"

\* function_ctx: the innermost function context, None without one
FunctionContext(stack) ==
  LET found == SelectSeq(stack, LAMBDA c : c.kind = "function")
  IN  IF found = <<>> THEN None ELSE found[Len(found)]

\* _extract_call_line: the range line found, else the default
extract_call_line(line, default_line) == IF line = 0 THEN default_line ELSE line

ScanCallKey(c) == <<c.source_symbol_id, StrRank(c.callee_name), c.arity, c.line>>

ScanMutationKey(m) == <<m.source_symbol_id, StrRank(m.target_name), m.line>>

\* the body of the loop over the lines of the dump
ScanLine(st, ln, abs_path) ==
  LET stack == PopContexts(st.stack, st.depth)
      line_depth == st.depth
      container == ContainerOf(stack, ln.decl)
      sid == symbol_id_text(abs_path, container, ln.name, ln.line)
      declared == [ id |-> sid, name |-> ln.name, signature |-> ln.name, line |-> ln.line,
                    container |-> container, visibility |-> "internal",
                    kind |-> KindOf(ln.decl), arity |-> 0, file |-> abs_path ]
      pushed == IF ln.decl \in {"type", "func"} /\ ln.balance > 0
                THEN Append(stack, [ kind |-> KindOf(ln.decl), name |-> ln.name,
                                     symbol_id |-> sid, pop_depth |-> line_depth,
                                     start_line |-> ln.line ])
                ELSE stack
      function_ctx == FunctionContext(pushed)
      event == NearestContext(pushed, "function") # None /\ ln.name # ""
  IN  [ depth |-> st.depth + ln.balance,
        stack |-> pushed,
        types |-> IF ln.decl = "type" THEN Append(st.types, declared) ELSE st.types,
        functions |-> IF ln.decl = "func" THEN Append(st.functions, declared) ELSE st.functions,
        variables |-> IF ln.decl = "var" THEN Append(st.variables, declared) ELSE st.variables,
        calls |-> IF ln.decl = "call" /\ event
                  THEN Append(st.calls,
                              [ source_symbol_id |-> function_ctx.symbol_id,
                                callee_name |-> ln.name, qualifier |-> None, arity |-> 0,
                                line |-> extract_call_line(ln.line, function_ctx.start_line) ])
                  ELSE st.calls,
        mutations |-> IF ln.decl = "assign" /\ event
                      THEN Append(st.mutations,
                                  [ source_symbol_id |-> function_ctx.symbol_id,
                                    target_name |-> ln.name, target_kind |-> "variable",
                                    line |-> extract_call_line(ln.line, function_ctx.start_line),
                                    confidence |-> (8 * Scale) \div 10 ])
                      ELSE st.mutations ]

RECURSIVE ScanLines(_, _, _)
ScanLines(st, lines, abs_path) ==
  IF lines = <<>> THEN st
  ELSE ScanLines(ScanLine(st, Head(lines), abs_path), Tail(lines), abs_path)

\* the state of the scan before the first line
ScanStart ==
  [ depth |-> 0, stack |-> <<>>, types |-> <<>>, functions |-> <<>>, variables |-> <<>>,
    calls |-> <<>>, mutations |-> <<>> ]

\* the record returned after the loop: each list sorted by its key
scan_result(abs_path, st) ==
  [ parser_version |-> PARSER_VERSION,
    file |-> abs_path,
    types |-> SortByKey(st.types, SymbolKey),
    functions |-> SortByKey(st.functions, SymbolKey),
    variables |-> SortByKey(st.variables, SymbolKey),
    calls |-> SortByKey(st.calls, ScanCallKey),
    mutations |-> SortByKey(st.mutations, ScanMutationKey) ]

\* analyze_file on a dump: the declarations and events found
analyze_dump(abs_path, lines) == scan_result(abs_path, ScanLines(ScanStart, lines, abs_path))

---------------------------------------------------------------------------
(* indexer.py *)

\* a file of the index directory that does not exist
Missing == [missing |-> TRUE]

\* a file whose text is not a JSON document (empty, or cut short)
Unreadable == [unreadable |-> TRUE]

\* dict.get(field), None when the key is absent
Get(rec, field) == IF field \in DOMAIN rec THEN rec[field] ELSE None

\* git ls-files when it succeeds with output (the tracked paths, whether or
\* not they are still on disk), else the .swift files found on disk; sorted
discover_swift_files(files, g) ==
  IF g.repo /\ g.tracked # {} THEN SetToSeq(g.tracked)
  ELSE SetToSeq({p \in DOMAIN files : files[p] # Absent})

\* the lines of git status --porcelain; 0 stands for the index directory,
\* listed as untracked once it exists unless the repository ignores it
GitStatus(files, g, index_dir_exists) ==
  {<<"M", p>> : p \in {q \in g.tracked : files[q] # Absent /\ files[q] # g.tree[q]}}
  \cup {<<"D", p>> : p \in {q \in g.tracked : files[q] = Absent}}
  \cup {<<"??", p>> : p \in {q \in DOMAIN files \ g.tracked : files[q] # Absent}}
  \cup (IF index_dir_exists /\ ~g.ignored THEN {<<"??", 0>>} ELSE {})

\* the 12 hex digits kept of the status hash are taken as injective
repo_digest(files, g, index_dir_exists) ==
  IF ~g.repo THEN <<"no-git">>
  ELSE IF GitStatus(files, g, index_dir_exists) # {}
  THEN <<"HEAD", "dirty", Sha256(GitStatus(files, g, index_dir_exists))>>
  ELSE <<"HEAD">>

\* the variant without the test on the symbol's kind
MutationCandidatesAnyKind(event, source_symbol, syms) ==
  LET exact == SelectSeq(syms, LAMBDA x : /\ x.file = source_symbol.file
                                          /\ x.container = source_symbol.container
                                          /\ x.name = event.target_name)
      any_container == SelectSeq(syms, LAMBDA x : /\ x.file = source_symbol.file
                                                  /\ x.name = event.target_name)
  IN  IF exact # <<>> THEN exact ELSE any_container

MutationCandidates(event, source_symbol, syms) ==
  LET exact == SelectSeq(syms, LAMBDA x : x.kind = "variable"
                                          /\ x.file = source_symbol.file
                                          /\ x.container = source_symbol.container
                                          /\ x.name = event.target_name)
      any_container == SelectSeq(syms, LAMBDA x : x.kind = "variable"
                                                  /\ x.file = source_symbol.file
                                                  /\ x.name = event.target_name)
  IN  IF exact # <<>> THEN exact ELSE any_container

MutationEdge(event, syms) ==
  LET candidates == MutationCandidates(event, LastWithId(syms, event.source_symbol_id), syms)
      base == [source |-> event.source_symbol_id, target_name |-> event.target_name,
               target_kind |-> event.target_kind, line |-> event.line]
  IN  IF Len(candidates) = 1
      THEN base @@ [target_symbol |-> candidates[1].id,
                    target_candidates |-> <<candidates[1].id>>,
                    resolution |-> "resolved", confidence |-> Scale]
      ELSE IF Len(candidates) > 1
      THEN base @@ [target_symbol |-> NullId,
                    target_candidates |-> SortedIds(MapSeq(candidates, SymId)),
                    resolution |-> "ambiguous",
                    confidence |-> AmbiguousConfidence(Len(candidates))]
      ELSE base @@ [target_symbol |-> NullId, target_candidates |-> <<>>,
                    resolution |-> "external", confidence |-> event.confidence]

MutationEdgeKey(e) ==
  <<e.source, ResRank(e.resolution), e.target_symbol, StrRank(e.target_name), e.line>>

\* events whose source is not a symbol of the table are skipped
resolve_mutation_edges(syms, mutations) ==
  SortByKey(MapSeq(SelectSeq(mutations, LAMBDA m : m.source_symbol_id \in SymbolIds(syms)),
                   LAMBDA m : MutationEdge(m, syms)),
            MutationEdgeKey)

\* impact.py build_dependency_edges: one edge per ordered pair of distinct
\* files joined by a resolved call, sorted
DependencyPairs(syms, edges_calls) ==
  { <<LastWithId(syms, e.source).file, LastWithId(syms, e.target).file>> :
      e \in { x \in Range(edges_calls) :
                /\ x.resolution = "resolved"
                /\ x.source # NullId /\ x.target # NullId
                /\ x.source \in SymbolIds(syms) /\ x.target \in SymbolIds(syms)
                /\ LastWithId(syms, x.source).file # LastWithId(syms, x.target).file } }

DependencyKey(e) == <<RelOfAbs(e.source_file), RelOfAbs(e.target_file)>>

RECURSIVE SetToList(_)
SetToList(S) ==
  IF S = {} THEN <<>> ELSE LET x == CHOOSE y \in S : TRUE IN <<x>> \o SetToList(S \ {x})

build_dependency_edges(syms, edges_calls) ==
  SortByKey(MapSeq(SetToList(DependencyPairs(syms, edges_calls)),
                   LAMBDA pr : [source_file |-> pr[1], target_file |-> pr[2], reason |-> "call"]),
            DependencyKey)

\* str.lower() on the modelled names
Lower(name) ==
  CASE name = "A" -> "a"
    [] name = "B" -> "b"
    [] name = "C" -> "c"
    [] OTHER -> name

NameKey(n) == <<StrRank(n)>>
AbsKey(a) == <<RelOfAbs(a)>>

build_indexes(syms, files_payload, edges_calls) ==
  LET resolved == { e \in Range(edges_calls) :
                      e.resolution = "resolved" /\ e.source # NullId /\ e.target # NullId }
      unresolved == SelectSeq(edges_calls, LAMBDA e : ~(e \in resolved) /\ e.source # NullId)
  IN  [ symbols_by_name |->
          [ n \in { Lower(syms[i].name) : i \in DOMAIN syms } |->
              SortedIds(MapSeq(SelectSeq(syms, LAMBDA x : Lower(x.name) = n), SymId)) ],
        symbols_by_file |-> symbols_by_file(syms),
        files_by_culture |->
          [ c \in { files_payload[i].culture : i \in DOMAIN files_payload } |->
              SortByKey(MapSeq(SelectSeq(files_payload, LAMBDA r : r.culture = c),
                               LAMBDA r : r.id), AbsKey) ],
        callers_by_symbol |->
          [ t \in { e.target : e \in resolved } |->
              SetToSeq({ e.source : e \in { x \in resolved : x.target = t } }) ],
        callees_by_symbol |->
          [ u \in { e.source : e \in resolved } |->
              SetToSeq({ e.target : e \in { x \in resolved : x.source = u } }) ],
        unresolved_calls_by_symbol |->
          [ u \in { unresolved[i].source : i \in DOMAIN unresolved } |->
              SortByKey(MapSeq(SelectSeq(unresolved, LAMBDA e : e.source = u),
                               LAMBDA e : e.target_name), NameKey) ] ]

---------------------------------------------------------------------------
(* graph_store.py *)

\* sorted(set(values)) on an already sorted list: equal neighbours collapse
RECURSIVE Dedup(_)
Dedup(s) ==
  IF Len(s) <= 1 THEN s
  ELSE IF s[1] = s[2] THEN Dedup(Tail(s))
  ELSE <<s[1]>> \o Dedup(Tail(s))

\* every list of an index replaced by _sorted_unique of it
SortedUniqueLists(index, Key(_)) ==
  [ k \in DOMAIN index |-> Dedup(SortByKey(index[k], Key)) ]

NormalMutationKey(e) == <<e.source, e.target_symbol, StrRank(e.target_name), e.line>>

normalize_graph(graph) ==
  [ graph EXCEPT
      !.files = SortByKey(graph.files, FileRecordKey),
      !.symbols = SortByKey(graph.symbols, SymbolKey),
      !.edges_calls = SortByKey(graph.edges_calls, CallEdgeKey),
      !.edges_mutations = SortByKey(graph.edges_mutations, NormalMutationKey),
      !.edges_depends_on = SortByKey(graph.edges_depends_on, DependencyKey),
      !.indexes = [ graph.indexes EXCEPT
                      !.symbols_by_name = SortedUniqueLists(@, IdKey),
                      !.symbols_by_file = SortedUniqueLists(@, IdKey),
                      !.files_by_culture = SortedUniqueLists(@, AbsKey),
                      !.callers_by_symbol = SortedUniqueLists(@, IdKey),
                      !.callees_by_symbol = SortedUniqueLists(@, IdKey),
                      !.unresolved_calls_by_symbol = SortedUniqueLists(@, NameKey) ] ]

\* read_json: json.loads raises on a text that is not a JSON document
read_json(file) ==
  IF file = Unreadable THEN [raised |-> "JSONDecodeError"]
  ELSE [raised |-> "no", result |-> file]

\* load_graph / load_cache: the document of the file, None / an empty cache
\* when the file does not exist
load_graph(graph_file) == graph_file
load_cache(cache_file) == IF cache_file = Missing THEN [files |-> <<>>] ELSE cache_file

---------------------------------------------------------------------------
(* indexer.py SemanticIndexer.build *)

valid_cache(cache) ==
  /\ Get(cache, "cache_version") = CACHE_VERSION
  /\ Get(cache, "parser_version") = PARSER_VERSION

\* the variant that takes any entry recorded for the path
UseCachedEntryAnyHash(incremental, cache_files, abs_path, digest) ==
  incremental /\ abs_path \in DOMAIN cache_files

\* the condition under which the loop takes the cached record of a file
UseCachedEntry(incremental, cache_files, abs_path, digest) ==
  /\ incremental
  /\ abs_path \in DOMAIN cache_files
  /\ cache_files[abs_path].hash = digest

\* the symbols of an analysis with the two fields the build adds in place
Annotate(analysis, c) ==
  LET mark(sym) == [ x \in DOMAIN sym \cup {"culture", "is_public_api"} |->
                       CASE x = "culture" -> c
                         [] x = "is_public_api" -> is_public_visibility(sym.visibility)
                         [] OTHER -> sym[x] ]
  IN  [ analysis EXCEPT !.types = MapSeq(analysis.types, mark),
                        !.functions = MapSeq(analysis.functions, mark),
                        !.variables = MapSeq(analysis.variables, mark) ]

\* the variant that always writes the build's own four values
MetaOfOwn(existing_graph, content_digest, own) == own

\* the variant that takes files_reused from the build at hand
MetaOfOwnReused(existing_graph, content_digest, own) ==
  IF existing_graph # Missing /\ Get(existing_graph.meta, "content_digest") = content_digest
  THEN [ generated_at |-> existing_graph.meta.generated_at,
         build_duration_ms |-> existing_graph.meta.build_duration_ms,
         files_reparsed |-> existing_graph.meta.files_reparsed,
         files_reused |-> own.files_reused ]
  ELSE own

\* lines 290-299: the four meta fields, taken from the existing graph when
\* its content digest is the one just computed
MetaOf(existing_graph, content_digest, own) ==
  IF existing_graph # Missing /\ Get(existing_graph.meta, "content_digest") = content_digest
  THEN [ generated_at |-> existing_graph.meta.generated_at,
         build_duration_ms |-> existing_graph.meta.build_duration_ms,
         files_reparsed |-> existing_graph.meta.files_reparsed,
         files_reused |-> existing_graph.meta.files_reused ]
  ELSE own

\* one run of build on the files of the repository, the git state g and the
\* two documents of the index directory; now and duration_ms are what the
\* clocks give.  The result carries what the run writes and returns.
\* the exception that ends the per-file loop, "no" when it runs to its end:
\* file_sha256 raises on a listed file that is gone, analyze_file raises
\* ParseError on a file that is not served from the cache and does not parse;
\* the first file in discovery order that raises decides
build_failure(files, g, cache_file, incremental) ==
  LET found == discover_swift_files(files, g)
      cache == IF incremental THEN load_cache(cache_file) ELSE [files |-> <<>>]
      cache_files == IF valid_cache(cache) THEN cache.files ELSE <<>>
      fails(p) ==
        IF files[p] = Absent THEN "FileNotFoundError"
        ELSE IF UseCachedEntry(incremental, cache_files, AbsPath(p), file_sha256(files[p]))
        THEN "no"
        ELSE run_dump_parse(files[p]).raised
      bad == { i \in DOMAIN found : fails(found[i]) # "no" }
  IN  IF bad = {} THEN "no"
      ELSE fails(found[CHOOSE i \in bad : \A k \in bad : i <= k])

\* a build left by an exception with a partial cache written
build_aborted_partial(graph_file, cache_file, failure) ==
  [ graph |-> graph_file,
    cache |-> [ cache_version |-> CACHE_VERSION, parser_version |-> PARSER_VERSION,
                generated_at |-> 0, files |-> <<>> ],
    stats |-> [raised |-> failure] ]

\* a build left by an exception: the loop raises before save_graph and
\* save_cache are reached, both files stay as they were
build_aborted(graph_file, cache_file, failure) ==
  [ graph |-> graph_file, cache |-> cache_file, stats |-> [raised |-> failure] ]

\* lines 260-283 and 318-326: everything in the graph but its meta, derived
\* from the annotated records of the files
derive_graph(analyses, culture_by_file) ==
  LET syms == flatten_symbols(analyses)
      edges_calls == resolve_calls(syms, flatten_calls(analyses))
      edges_mutations == resolve_mutation_edges(syms, flatten_mutations(analyses))
      files_payload == build_file_records(analyses, culture_by_file)
  IN  [ files |-> files_payload,
        symbols |-> syms,
        edges_calls |-> edges_calls,
        edges_mutations |-> edges_mutations,
        edges_depends_on |-> build_dependency_edges(syms, edges_calls),
        impact |-> compute_impact(syms, edges_calls, edges_mutations, culture_by_file),
        indexes |-> build_indexes(syms, files_payload, edges_calls) ]

\* the variant whose entries carry the hash of the record
new_cache_files_record_hash(found, digest, analyses) ==
  [ a \in { AbsPath(p) : p \in Range(found) } |->
      LET analysis == analyses[CHOOSE i \in DOMAIN found : found[i] = RelOfAbs(a)]
      IN  [ hash |-> analysis.hash, analysis |-> analysis ] ]

\* lines 254-257: one cache entry per discovered file, under its absolute
\* path, with the digest of the bytes read and the record used
new_cache_files(found, digest, analyses) ==
  [ a \in { AbsPath(p) : p \in Range(found) } |->
      [ hash |-> digest[RelOfAbs(a)],
        analysis |-> analyses[CHOOSE i \in DOMAIN found : found[i] = RelOfAbs(a)] ] ]

build(files, g, graph_file, cache_file, incremental, now, duration_ms) ==
  LET existing_graph == load_graph(graph_file)
      found == discover_swift_files(files, g)
      cache == IF incremental THEN load_cache(cache_file) ELSE [files |-> <<>>]
      cache_files == IF valid_cache(cache) THEN cache.files ELSE <<>>
      digest == [ p \in Range(found) |-> file_sha256(files[p]) ]
      reuse == [ p \in Range(found) |->
                 UseCachedEntry(incremental, cache_files, AbsPath(p), digest[p]) ]
      fresh == [ p \in Range(found) |-> analyze_file(p, files[p]) ]
      raw == [ p \in Range(found) |->
               IF reuse[p]
               THEN [ [ x \in DOMAIN cache_files[AbsPath(p)].analysis \cup {"rel_path"} |->
                          IF x = "rel_path" THEN p ELSE cache_files[AbsPath(p)].analysis[x] ]
                      EXCEPT !.hash = digest[p], !.file = AbsPath(p) ]
               ELSE [ x \in DOMAIN fresh[p] \cup {"rel_path"} |->
                        IF x = "rel_path" THEN p ELSE fresh[p][x] ] ]
      culture_by_file == [ a \in { AbsPath(p) : p \in Range(found) } |->
                             classify_file(RelOfAbs(a), raw[RelOfAbs(a)]) ]
      analyses == MapSeq(found, LAMBDA p : Annotate(raw[p], culture_by_file[AbsPath(p)]))
      derived == derive_graph(analyses, culture_by_file)
      syms == derived.symbols
      edges_calls == derived.edges_calls
      edges_mutations == derived.edges_mutations
      reused == { p \in Range(found) : reuse[p] }
      content_digest == Sha256(MapSeq(found, LAMBDA p : <<p, digest[p]>>))
      own == [ generated_at |-> now,
               build_duration_ms |-> duration_ms,
               files_reparsed |-> Len(found) - Cardinality(reused),
               files_reused |-> Cardinality(reused) ]
      kept == MetaOf(existing_graph, content_digest, own)
      graph ==
        [ meta |-> [ schema_version |-> SCHEMA_VERSION,
                     parser_version |-> PARSER_VERSION,
                     generated_at |-> kept.generated_at,
                     repo_root |-> "/repo",
                     repo_digest |-> repo_digest(files, g,
                                       graph_file # Missing \/ cache_file # Missing),
                     content_digest |-> content_digest,
                     build_duration_ms |-> kept.build_duration_ms,
                     files_total |-> Len(found),
                     files_reparsed |-> kept.files_reparsed,
                     files_reused |-> kept.files_reused ] ]
        @@ derived
  IN  [ graph |-> normalize_graph(graph),
        cache |-> [ cache_version |-> CACHE_VERSION,
                    parser_version |-> PARSER_VERSION,
                    generated_at |-> now,
                    files |-> new_cache_files(found, digest, analyses) ],
        stats |-> [ files_total |-> Len(found),
                    files_reparsed |-> own.files_reparsed,
                    files_reused |-> own.files_reused,
                    symbols_total |-> Len(syms),
                    call_edges_total |-> Len(edges_calls),
                    mutation_edges_total |-> Len(edges_mutations),
                    duration_ms |-> duration_ms ],
        found |-> found,
        reused |-> reused,
        own |-> own ]

\* dict.get(field, default)
GetOr(rec, field, default) == IF field \in DOMAIN rec THEN rec[field] ELSE default

\* schemas.py graph_top_level_keys
graph_top_level_keys ==
  << "meta", "files", "symbols", "edges_calls", "edges_mutations", "edges_depends_on",
     "impact", "indexes" >>

\* schemas.py validate_graph_shape: a list that is absent is None, not a list
validate_graph_shape(graph) ==
  MapSeq(SelectSeq(graph_top_level_keys, LAMBDA k : k \notin DOMAIN graph),
         LAMBDA k : <<"missing top-level key", k>>)
  \o (IF Get(GetOr(graph, "meta", <<>>), "schema_version") # SCHEMA_VERSION
      THEN << <<"schema_version mismatch", "meta">> >> ELSE <<>>)
  \o MapSeq(SelectSeq(<<"symbols", "edges_calls", "files">>, LAMBDA k : k \notin DOMAIN graph),
            LAMBDA k : <<"must be a list", k>>)

\* doctor_check: (ok, errors); the checks after validate_graph_shape cover
\* the ends of the call edges, the files of the dependency edges and the
\* ids listed by symbols_by_file
doctor_check(graph_file, strict) ==
  IF graph_file = Missing
  THEN [ raised |-> "no", ok |-> ~strict, errors |-> << <<"graph file missing", strict>> >> ]
  ELSE IF read_json(graph_file).raised # "no"
  THEN [ raised |-> read_json(graph_file).raised ]
  ELSE
    LET graph == load_graph(graph_file)
        symbol_ids == SymbolIds(GetOr(graph, "symbols", <<>>))
        file_ids == { r.id : r \in Range(GetOr(graph, "files", <<>>)) }
        by_file == GetOr(GetOr(graph, "indexes", <<>>), "symbols_by_file", <<>>)
        call_errors ==
          Concat(MapSeq(GetOr(graph, "edges_calls", <<>>), LAMBDA e :
            (IF e.source # NullId /\ e.source \notin symbol_ids
             THEN << <<"call edge source missing symbol", e.source>> >> ELSE <<>>)
            \o (IF e.target # NullId /\ e.target \notin symbol_ids
                THEN << <<"call edge target missing symbol", e.target>> >> ELSE <<>>)))
        dependency_errors ==
          Concat(MapSeq(GetOr(graph, "edges_depends_on", <<>>), LAMBDA e :
            (IF e.source_file \notin file_ids
             THEN << <<"dependency edge source file missing", e.source_file>> >> ELSE <<>>)
            \o (IF e.target_file \notin file_ids
                THEN << <<"dependency edge target file missing", e.target_file>> >> ELSE <<>>)))
        index_errors ==
          Concat(MapSeq(SortByKey(SetToList(DOMAIN by_file), AbsKey), LAMBDA f :
            MapSeq(SelectSeq(by_file[f], LAMBDA sid : sid \notin symbol_ids),
                   LAMBDA sid : <<"index references missing symbol", sid>>)))
        errors == validate_graph_shape(graph) \o call_errors \o dependency_errors
                  \o index_errors
    IN  [ raised |-> "no", ok |-> Len(errors) = 0, errors |-> errors ]

---------------------------------------------------------------------------
(* query_tools.py: GraphQueryEngine.refactor_guardrail *)

AMBIGUITY_CONFIDENCE_THRESHOLD == 7500
LAW_HARD_BLOCK_CALLER_THRESHOLD == 100
CITIZEN_SURFACE_THRESHOLD == 40

\* file_record.get("culture", "Citizen"): a symbol whose file has no record
\* (NoFile) counts as Citizen
FileCulture(c) == IF c = "NoFile" THEN "Citizen" ELSE c

\* the Law rule tried before the unresolved-evidence rule
GuardrailTagLawFirst(c, m) ==
  IF FileCulture(c) = "Auditor" THEN "auditor_advisory"
  ELSE IF FileCulture(c) = "Law" /\ m.direct_callers >= LAW_HARD_BLOCK_CALLER_THRESHOLD
       THEN "hard_block_signature_change"
  ELSE IF m.unresolved_count > 0
          /\ m.unresolved_min_confidence < AMBIGUITY_CONFIDENCE_THRESHOLD
       THEN "high_risk_manual_review"
  ELSE IF FileCulture(c) = "View" THEN "view_soft_warn"
  ELSE IF m.direct_callers + m.fan_out >= CITIZEN_SURFACE_THRESHOLD THEN "citizen_high_surface"
  ELSE "allow_change_with_tests"

\* the caller threshold compared with > in place of >=
GuardrailTagStrict(c, m) ==
  IF FileCulture(c) = "Auditor" THEN "auditor_advisory"
  ELSE IF m.unresolved_count > 0
          /\ m.unresolved_min_confidence < AMBIGUITY_CONFIDENCE_THRESHOLD
       THEN "high_risk_manual_review"
  ELSE IF FileCulture(c) = "Law" /\ m.direct_callers > LAW_HARD_BLOCK_CALLER_THRESHOLD
       THEN "hard_block_signature_change"
  ELSE IF FileCulture(c) = "View" THEN "view_soft_warn"
  ELSE IF m.direct_callers + m.fan_out >= CITIZEN_SURFACE_THRESHOLD THEN "citizen_high_surface"
  ELSE "allow_change_with_tests"

\* the View rule tried before the unresolved-evidence rule
GuardrailTagViewFirst(c, m) ==
  IF FileCulture(c) = "Auditor" THEN "auditor_advisory"
  ELSE IF FileCulture(c) = "View" THEN "view_soft_warn"
  ELSE IF m.unresolved_count > 0
          /\ m.unresolved_min_confidence < AMBIGUITY_CONFIDENCE_THRESHOLD
       THEN "high_risk_manual_review"
  ELSE IF FileCulture(c) = "Law" /\ m.direct_callers >= LAW_HARD_BLOCK_CALLER_THRESHOLD
       THEN "hard_block_signature_change"
  ELSE IF m.direct_callers + m.fan_out >= CITIZEN_SURFACE_THRESHOLD THEN "citizen_high_surface"
  ELSE "allow_change_with_tests"

\* the if / elif chain that picks the guardrail tag
GuardrailTag(c, m) ==
  IF FileCulture(c) = "Auditor" THEN "auditor_advisory"
  ELSE IF m.unresolved_count > 0
          /\ m.unresolved_min_confidence < AMBIGUITY_CONFIDENCE_THRESHOLD
       THEN "high_risk_manual_review"
  ELSE IF FileCulture(c) = "Law" /\ m.direct_callers >= LAW_HARD_BLOCK_CALLER_THRESHOLD
       THEN "hard_block_signature_change"
  ELSE IF FileCulture(c) = "View" THEN "view_soft_warn"
  ELSE IF m.direct_callers + m.fan_out >= CITIZEN_SURFACE_THRESHOLD THEN "citizen_high_surface"
  ELSE "allow_change_with_tests"

refactor_guardrail(c, m) ==
  [ culture |-> FileCulture(c),
    direct_callers |-> m.direct_callers,
    fan_out |-> m.fan_out,
    unresolved_count |-> m.unresolved_count,
    unresolved_min_confidence |-> m.unresolved_min_confidence,
    guardrail |-> GuardrailTag(c, m),
    hard_block |-> (GuardrailTag(c, m) = "hard_block_signature_change") ]

---------------------------------------------------------------------------
(* query_tools.py: GraphQueryEngine *)

DEFAULT_IMPACT_DEPTH == 2

\* GraphQueryEngine.__init__: the graph, and the forward / reverse adjacency
\* over its resolved call edges (one relation read in both directions)
GraphQueryEngine(graph) ==
  [ graph |-> graph,
    symbol_ids |-> SymbolIds(graph.symbols),
    adjacency |-> ResolvedPairs(graph.edges_calls) ]

\* file_by_id.get(symbol["file"], {}).get("culture", "Citizen")
EngineCulture(engine, sid) ==
  LET f == LastWithId(engine.graph.symbols, sid).file
      recs == SelectSeq(engine.graph.files, LAMBDA r : r.id = f)
  IN  IF recs = <<>> THEN "NoFile" ELSE recs[Len(recs)].culture

\* impact_symbols.get(sid, {}).get("score", 0)
EngineScore(engine, sid) ==
  IF sid \in DOMAIN engine.graph.impact.symbols
  THEN engine.graph.impact.symbols[sid].score ELSE 0

HotspotKey(h) == <<-h.score, h.symbol_id>>

\* graph_summary: the counts and the ten symbols of highest score
graph_summary(engine) ==
  LET ids == SetToSeq(DOMAIN engine.graph.impact.symbols)
      hotspots == SortByKey([ i \in DOMAIN ids |->
                                [ symbol_id |-> ids[i],
                                  score |-> EngineScore(engine, ids[i]),
                                  direct_callers |->
                                    engine.graph.impact.symbols[ids[i]].direct_callers ] ],
                            HotspotKey)
  IN  [ schema_version |-> Get(engine.graph.meta, "schema_version"),
        generated_at |-> Get(engine.graph.meta, "generated_at"),
        counts |-> [ files |-> Len(engine.graph.files),
                     symbols |-> Len(engine.graph.symbols),
                     edges_calls |-> Len(engine.graph.edges_calls),
                     edges_mutations |-> Len(engine.graph.edges_mutations),
                     edges_depends_on |-> Len(engine.graph.edges_depends_on) ],
        hotspots |-> SubSeq(hotspots, 1, Min2(10, Len(hotspots))) ]

\* `key in name` on the modelled names, none of which is a proper part of
\* another
Contains(name, key) == key = "" \/ name = key

MatchKey(m) == <<-m.confidence, StrRank(m.name), m.id>>

\* find_symbol: the ids the name index lists for the lowered query, else the
\* ids of every name containing it; filtered by kind and culture when given
find_symbol(engine, query, kind_filter, culture_filter, limit) ==
  LET key == Lower(query)
      by_name_index == engine.graph.indexes.symbols_by_name
      exact == IF key \in DOMAIN by_name_index THEN Range(by_name_index[key]) ELSE {}
      matched_ids == IF exact # {} THEN exact
                     ELSE UNION { Range(by_name_index[n]) :
                                    n \in { m \in DOMAIN by_name_index : Contains(m, key) } }
      kept == SelectSeq(SetToSeq(matched_ids \cap engine.symbol_ids), LAMBDA sid :
                /\ kind_filter # None =>
                     LastWithId(engine.graph.symbols, sid).kind = kind_filter
                /\ culture_filter # None =>
                     FileCulture(EngineCulture(engine, sid)) = culture_filter)
      items == SortByKey([ i \in DOMAIN kept |->
                             [ id |-> kept[i],
                               name |-> LastWithId(engine.graph.symbols, kept[i]).name,
                               kind |-> LastWithId(engine.graph.symbols, kept[i]).kind,
                               file |-> LastWithId(engine.graph.symbols, kept[i]).file,
                               culture |-> FileCulture(EngineCulture(engine, kept[i])),
                               confidence |->
                                 IF Lower(LastWithId(engine.graph.symbols, kept[i]).name) = key
                                 THEN Scale ELSE (8 * Scale) \div 10 ] ],
                         MatchKey)
  IN  [ query |-> query, matches |-> SubSeq(items, 1, Min2(limit, Len(items))) ]

\* the variant whose seen set starts empty
bfs_unseeded(engine, start, reverse, depth) ==
  BfsLoop([seen |-> {}, dist |-> <<>>, queue |-> <<<<start, 0>>>>],
          engine.adjacency, reverse, depth).dist

\* _bfs: the distances of the nodes found within `depth` hops of start
bfs(engine, start, reverse, depth) ==
  BfsLoop([seen |-> {start}, dist |-> <<>>, queue |-> <<<<start, 0>>>>],
          engine.adjacency, reverse, depth).dist

symbol_payload(engine, sid, distance) ==
  [ id |-> sid,
    kind |-> LastWithId(engine.graph.symbols, sid).kind,
    file |-> LastWithId(engine.graph.symbols, sid).file,
    culture |-> FileCulture(EngineCulture(engine, sid)),
    distance |-> distance,
    impact_score |-> EngineScore(engine, sid) ]

NodeKey(n) == <<n.distance, -n.impact_score, n.id>>

\* the payloads of the found nodes, in id order, then sorted by
\* (distance, -impact_score, id)
SliceNodes(engine, distances) ==
  SortByKey([ i \in DOMAIN SetToSeq(DOMAIN distances) |->
                symbol_payload(engine, SetToSeq(DOMAIN distances)[i],
                               distances[SetToSeq(DOMAIN distances)[i]]) ],
            NodeKey)

CountEdges(engine, Test(_)) == Len(SelectSeq(engine.graph.edges_calls, Test))

Raised(exc) == [raised |-> exc]
Returned(result) == [raised |-> "no", result |-> result]

get_callers(engine, sid, depth) ==
  IF sid \notin engine.symbol_ids THEN Raised("KeyError")
  ELSE Returned(
    [ symbol_id |-> sid,
      depth |-> depth,
      stats |-> [ resolved_edges |-> CountEdges(engine,
                    LAMBDA e : e.resolution = "resolved" /\ e.target = sid),
                  ambiguous_edges |-> CountEdges(engine,
                    LAMBDA e : e.resolution = "ambiguous"
                               /\ sid \in Range(e.target_candidates)),
                  external_edges |-> 0 ],
      nodes |-> SliceNodes(engine, bfs(engine, sid, TRUE, depth)) ])

get_callees(engine, sid, depth) ==
  IF sid \notin engine.symbol_ids THEN Raised("KeyError")
  ELSE Returned(
    [ symbol_id |-> sid,
      depth |-> depth,
      stats |-> [ resolved_edges |-> CountEdges(engine,
                    LAMBDA e : e.resolution = "resolved" /\ e.source = sid),
                  ambiguous_edges |-> CountEdges(engine,
                    LAMBDA e : e.resolution = "ambiguous" /\ e.source = sid),
                  external_edges |-> CountEdges(engine,
                    LAMBDA e : e.resolution = "external" /\ e.source = sid) ],
      nodes |-> SliceNodes(engine, bfs(engine, sid, FALSE, depth)) ])

\* refactor_guardrail as called on the engine: the lookups of lines 281-292
\* with their defaults, then the decision
engine_refactor_guardrail(engine, sid) ==
  IF sid \notin engine.symbol_ids THEN Raised("KeyError")
  ELSE LET found == IF sid \in DOMAIN engine.graph.impact.symbols
                    THEN engine.graph.impact.symbols[sid] ELSE <<>>
           num(field, default) == IF field \in DOMAIN found THEN found[field] ELSE default
           m == [ direct_callers |-> num("direct_callers", 0),
                  fan_out |-> num("fan_out", 0),
                  unresolved_count |-> num("unresolved_count", 0),
                  unresolved_min_confidence |-> num("unresolved_min_confidence", Scale) ]
       IN  Returned([ x \in {"symbol_id"} \cup DOMAIN refactor_guardrail("NoFile", m) |->
                        IF x = "symbol_id" THEN sid
                        ELSE refactor_guardrail(EngineCulture(engine, sid), m)[x] ])

\* forward.get(node) | reverse.get(node): the undirected neighbours
RadiusNeighboursForward(pairs, node) == CalleesIn(pairs, node)

RadiusNeighbours(pairs, node) == CalleesIn(pairs, node) \cup CallersIn(pairs, node)

\* the `while queue:` loop of impact_radius
RECURSIVE RadiusLoop(_, _, _)
RadiusLoop(st, pairs, limit) ==
  IF st.queue = <<>> THEN st
  ELSE LET node == Head(st.queue)[1]
           d == Head(st.queue)[2]
           popped == [st EXCEPT !.queue = Tail(st.queue)]
       IN  IF d >= limit THEN RadiusLoop(popped, pairs, limit)
           ELSE RadiusLoop(Visit(popped, SetToSeq(RadiusNeighbours(pairs, node)), d + 1),
                           pairs, limit)

\* round(score / max(1, dist), 4)
Influence(score, dist) == RoundRatio(score, Max2(1, dist) * Scale)

InfluenceKey(n) == <<-n.influence, n.distance, n.id>>

\* start_symbols of impact_radius: the symbol, or the ids the file index lists
StartSymbols(engine, target_id, target_type) ==
  IF target_type = "symbol" THEN {target_id}
  ELSE IF target_id \in DOMAIN engine.graph.indexes.symbols_by_file
  THEN Range(engine.graph.indexes.symbols_by_file[target_id])
  ELSE {}

impact_radius(engine, target_id, target_type, depth) ==
  IF target_type \notin {"symbol", "file"} THEN Raised("ValueError")
  ELSE IF target_type = "symbol" /\ target_id \notin engine.symbol_ids THEN Raised("KeyError")
  ELSE IF StartSymbols(engine, target_id, target_type) = {} THEN Raised("KeyError")
  ELSE LET start_symbols == StartSymbols(engine, target_id, target_type)
           seeds == SetToSeq(start_symbols)
           distances == RadiusLoop([ seen |-> start_symbols, dist |-> <<>>,
                                     queue |-> [i \in DOMAIN seeds |-> <<seeds[i], 0>>] ],
                                   engine.adjacency, depth).dist
           found == SetToSeq(DOMAIN distances)
           nodes == SortByKey(
                      [ i \in DOMAIN found |->
                          symbol_payload(engine, found[i], distances[found[i]])
                          @@ [ influence |-> Influence(EngineScore(engine, found[i]),
                                                       distances[found[i]]) ] ],
                      InfluenceKey)
       IN  Returned([ target_id |-> target_id,
                      target_type |-> target_type,
                      depth |-> depth,
                      nodes |-> nodes,
                      files_touched |->
                        SortByKey(SetToList({ nodes[i].file : i \in DOMAIN nodes }), AbsKey) ])

---------------------------------------------------------------------------
(* mcp_server.py *)

JSONRPC_VERSION == "2.0"
METHOD_NOT_FOUND == -32601

\* MCPServer.__init__
NewServer == [engine |-> Missing, graph_mtime_ns |-> None]

\* handle_request returning None: nothing is written back
NoResponse == [kind |-> "none"]

ToolNames ==
  {"graph_summary", "find_symbol", "get_callers", "get_callees", "impact_radius",
   "refactor_guardrail"}

\* _reload_engine_if_needed: the server after the call, or what it raises
\* (json.loads raises on a text that is not a document)
reload_engine_if_needed(srv, graph_file, mtime_ns) ==
  IF graph_file = Missing THEN Raised("FileNotFoundError")
  ELSE IF srv.engine = Missing \/ srv.graph_mtime_ns # mtime_ns
  THEN IF graph_file = Unreadable THEN Raised("JSONDecodeError")
       ELSE Returned([engine |-> GraphQueryEngine(load_graph(graph_file)),
                      graph_mtime_ns |-> mtime_ns])
  ELSE Returned(srv)

success(request_id, result) ==
  [jsonrpc |-> JSONRPC_VERSION, id |-> request_id, result |-> result]

error(request_id, code) ==
  [jsonrpc |-> JSONRPC_VERSION, id |-> request_id, error |-> [code |-> code]]

\* an error payload that is not flagged
tool_payload_unflagged(payload, is_error) == [isError |-> FALSE, content |-> payload]

\* the text of the content item is the JSON rendering of the payload; the
\* payload stands for it
tool_payload(payload, is_error) == [isError |-> is_error, content |-> payload]

DEFAULT_FIND_LIMIT == 25

\* the dispatch on the tool name: a required argument read with
\* arguments[...] raises KeyError when absent, an optional one has its default
call_tool(engine, name, arguments) ==
  LET has(k) == k \in DOMAIN arguments
      opt(k, default) == IF k \in DOMAIN arguments THEN arguments[k] ELSE default
  IN  CASE name = "graph_summary" -> Returned(graph_summary(engine))
        [] name = "find_symbol" ->
             IF ~has("query") THEN Raised("KeyError")
             ELSE Returned(find_symbol(engine, arguments.query, opt("kind", None),
                                       opt("culture", None), opt("limit", DEFAULT_FIND_LIMIT)))
        [] name = "get_callers" ->
             IF ~has("symbol_id") THEN Raised("KeyError")
             ELSE get_callers(engine, arguments.symbol_id, opt("depth", DEFAULT_IMPACT_DEPTH))
        [] name = "get_callees" ->
             IF ~has("symbol_id") THEN Raised("KeyError")
             ELSE get_callees(engine, arguments.symbol_id, opt("depth", DEFAULT_IMPACT_DEPTH))
        [] name = "impact_radius" ->
             IF ~has("target_id") \/ ~has("target_type") THEN Raised("KeyError")
             ELSE impact_radius(engine, arguments.target_id, arguments.target_type,
                                opt("depth", DEFAULT_IMPACT_DEPTH))
        [] name = "refactor_guardrail" ->
             IF ~has("symbol_id") THEN Raised("KeyError")
             ELSE engine_refactor_guardrail(engine, arguments.symbol_id)
        [] OTHER -> Raised("unknown tool")

\* handle_request: the server after the request and the response (NoResponse
\* for a notification)
handle_request(srv, req, graph_file, mtime_ns) ==
  CASE req.method = "initialize" ->
         [server |-> srv, response |-> success(req.id, [protocolVersion |-> "2024-11-05"])]
    [] req.method = "notifications/initialized" ->
         [server |-> srv, response |-> NoResponse]
    [] req.method = "ping" ->
         [server |-> srv, response |-> success(req.id, [ok |-> TRUE])]
    [] req.method = "tools/list" ->
         [server |-> srv, response |-> success(req.id, [tools |-> ToolNames])]
    [] req.method = "tools/call" ->
         LET loaded == reload_engine_if_needed(srv, graph_file, mtime_ns)
             answer == call_tool(loaded.result.engine, req.params.name, req.params.arguments)
         IN  IF loaded.raised # "no"
             THEN [ server |-> srv,
                    response |-> success(req.id, tool_payload([error |-> loaded.raised], TRUE)) ]
             ELSE IF answer.raised # "no"
             THEN [ server |-> loaded.result,
                    response |-> success(req.id, tool_payload([error |-> answer.raised], TRUE)) ]
             ELSE [ server |-> loaded.result,
                    response |-> success(req.id, tool_payload(answer.result, FALSE)) ]
    [] OTHER ->
         [server |-> srv, response |-> error(req.id, METHOD_NOT_FOUND)]

---------------------------------------------------------------------------
(* Each specification below runs one component; the variables of the       *)
(* others stay at these values.                                            *)

NoVerdict == [guardrail |-> "none", hard_block |-> FALSE]

ResolveIdle == symbols = <<>> /\ calls = <<>> /\ edges = <<>>
GuardIdle == culture = "NoFile" /\ metrics = <<>> /\ verdict = NoVerdict
ImpactIdle == impact = <<>>
ExtractIdle == dump = <<>> /\ parsed = <<>>
PureIdle == pc = "idle" /\ ResolveIdle /\ GuardIdle /\ ImpactIdle /\ ExtractIdle

NoGit == [repo |-> FALSE, ignored |-> FALSE, tracked |-> {}, tree |-> <<>>]
NoStats == [raised |-> "nothing run"]
NoBuild == [kind |-> "none"]
NoRequest == [via |-> "none"]

BuildIdle ==
  /\ repo = <<>> /\ git = NoGit /\ cacheFile = Missing
  /\ clock = 0 /\ stats = NoStats /\ last = NoBuild
StoreIdle == graphFile = Missing /\ graphMtime = 0
ServerIdle == server = NewServer /\ request = NoRequest /\ response = NoResponse
SystemIdle == BuildIdle /\ StoreIdle /\ ServerIdle

---------------------------------------------------------------------------
(* The guardrail on its own: one symbol of a loaded graph, its file's      *)
(* culture and its impact record drawn from sets around the thresholds.    *)

Cultures == {"Auditor", "View", "Law", "Citizen"}

ImpactRecords ==
  [ direct_callers : {0, 39, 40, 99, 100, 120},
    fan_out : {0, 1, 40},
    unresolved_count : {0, 1, 3},
    unresolved_min_confidence : {0, 2000, 5000, 7499, 7500, Scale} ]

GuardInit ==
  /\ pc = "call"
  /\ culture \in Cultures \cup {"NoFile"}
  /\ metrics \in ImpactRecords
  /\ verdict = NoVerdict
  /\ ResolveIdle /\ ImpactIdle /\ ExtractIdle /\ SystemIdle

RefactorGuardrail ==
  /\ pc = "call"
  /\ pc' = "return"
  /\ verdict' = refactor_guardrail(culture, metrics)
  /\ UNCHANGED <<culture, metrics>>
  /\ UNCHANGED <<resolveVars, impactVars, extractVars, systemVars>>

GuardNext == RefactorGuardrail

SpecGuard == GuardInit /\ [][GuardNext]_vars

LowConfidenceEvidence ==
  metrics.unresolved_count > 0 /\ 4 * metrics.unresolved_min_confidence < 3 * Scale

\* C6: a symbol whose file culture is not Auditor and whose impact record has
\* unresolved_count > 0 and unresolved_min_confidence < 0.75 gets
\* high_risk_manual_review with hard_block false, whatever its culture,
\* direct-caller count and fan-out.
C6_FailClosedPrecedence ==
  (pc = "return" /\ FileCulture(culture) # "Auditor" /\ LowConfidenceEvidence) =>
    verdict.guardrail = "high_risk_manual_review" /\ verdict.hard_block = FALSE

\* a Law symbol with at least 100 direct callers and low-confidence evidence
\* has been answered
C6_Witness ==
  /\ pc = "return" /\ culture = "Law" /\ metrics.direct_callers >= 100
  /\ LowConfidenceEvidence
  /\ verdict.guardrail = "high_risk_manual_review"

\* C7: hard_block is true exactly when the tag is hard_block_signature_change,
\* and that tag is returned exactly for a Law symbol with at least 100 direct
\* callers and no unresolved evidence of minimum confidence below 0.75.
C7_HardBlockExactly ==
  pc = "return" =>
    /\ verdict.hard_block = TRUE <=> verdict.guardrail = "hard_block_signature_change"
    /\ verdict.guardrail = "hard_block_signature_change" <=>
         (FileCulture(culture) = "Law" /\ metrics.direct_callers >= 100
            /\ ~LowConfidenceEvidence)

\* a Law symbol with exactly 100 direct callers has been hard-blocked
C7_Witness ==
  /\ pc = "return" /\ culture = "Law" /\ metrics.direct_callers = 100
  /\ verdict.hard_block = TRUE

\* C8 as stated: every symbol, whatever its culture, with low-confidence
\* unresolved evidence gets high_risk_manual_review and never a more
\* permissive outcome.
C8_FailClosedAllCultures ==
  (pc = "return" /\ LowConfidenceEvidence) =>
    verdict.guardrail = "high_risk_manual_review"

\* C8 amended: with low-confidence unresolved evidence a symbol gets
\* high_risk_manual_review unless its file culture is Auditor; an Auditor
\* symbol gets auditor_advisory, with or without such evidence.
C8_FailClosedExceptAuditor ==
  pc = "return" =>
    /\ FileCulture(culture) = "Auditor" => verdict.guardrail = "auditor_advisory"
    /\ (LowConfidenceEvidence /\ FileCulture(culture) # "Auditor") =>
         verdict.guardrail = "high_risk_manual_review"

\* a View symbol and an Auditor symbol with low-confidence evidence: the
\* state reached is one of them answered
C8_Witness ==
  /\ pc = "return" /\ LowConfidenceEvidence
  /\ culture = "Auditor"
  /\ verdict.guardrail = "auditor_advisory"

\* C21: citizen_high_surface is returned only for symbols of Citizen
\* culture, and a Law symbol with fewer than 100 direct callers and no
\* low-confidence unresolved evidence gets allow_change_with_tests whatever
\* its fan-out.
C21_HighSurfaceCitizenOnly ==
  pc = "return" =>
    /\ verdict.guardrail = "citizen_high_surface" => FileCulture(culture) = "Citizen"
    /\ (FileCulture(culture) = "Law" /\ metrics.direct_callers < 100 /\ ~LowConfidenceEvidence)
         => verdict.guardrail = "allow_change_with_tests"

\* a Law symbol with fewer than 100 direct callers, no low-confidence
\* evidence and direct callers + fan-out of at least 40 has been answered
\* citizen_high_surface
C21_LawHighSurface ==
  /\ pc = "return" /\ culture = "Law"
  /\ metrics.direct_callers < 100 /\ ~LowConfidenceEvidence
  /\ metrics.direct_callers + metrics.fan_out >= 40
  /\ verdict.guardrail = "citizen_high_surface"

\* the last rule asks for the surface alone: it is reached by Citizen and
\* Law symbols (and symbols of a file without a record), never by Auditor or
\* View symbols
C21_SurfaceRuleReach ==
  pc = "return" =>
    (verdict.guardrail = "citizen_high_surface" <=>
       /\ FileCulture(culture) \in {"Citizen", "Law"}
       /\ ~LowConfidenceEvidence
       /\ ~(FileCulture(culture) = "Law" /\ metrics.direct_callers >= 100)
       /\ metrics.direct_callers + metrics.fan_out >= 40)

---------------------------------------------------------------------------
(* The resolver on its own: a symbol table drawn from a pool, and          *)
(* resolve_calls applied to bounded lists of call events.                  *)

MaxCalls == 2

\* the pool the symbol tables are drawn from, in id order
SymbolPool ==
  << [id |-> 1, name |-> "tick", kind |-> "function", container |-> "A", arity |-> 0],
     [id |-> 2, name |-> "tick", kind |-> "function", container |-> "A", arity |-> 1],
     [id |-> 3, name |-> "tick", kind |-> "function", container |-> "B", arity |-> 0],
     [id |-> 4, name |-> "run",  kind |-> "function", container |-> "C", arity |-> 0],
     [id |-> 5, name |-> "tick", kind |-> "variable", container |-> "A", arity |-> 0],
     [id |-> 6, name |-> "tick", kind |-> "function", container |-> "global", arity |-> 0] >>

\* the symbol tables: the sub-lists of the pool (flatten_symbols keeps them id-sorted)
SymbolTables ==
  { SelectSeq(SymbolPool, LAMBDA s : s.id \in ids) : ids \in SUBSET (1..Len(SymbolPool)) }

\* call events as the extractor emits them, without their line
CallShapes ==
  [source_symbol_id : {4}, callee_name : {"tick"}, qualifier : {None, "A", "C"}, arity : {0, 1}]
  \cup [source_symbol_id : {3, 4}, callee_name : {"missing"}, qualifier : {None}, arity : {1}]

\* the i-th event of a list is on its own source line
CallLine(i) == 10 + i

CallLists ==
  UNION { { [i \in 1..n |-> shapes[i] @@ [line |-> CallLine(i)]] : shapes \in [1..n -> CallShapes] }
          : n \in 0..MaxCalls }

ResolveInit ==
  /\ pc = "call"
  /\ symbols \in SymbolTables
  /\ calls \in CallLists
  /\ edges = <<>>
  /\ GuardIdle /\ ImpactIdle /\ ExtractIdle /\ SystemIdle

ResolveCalls ==
  /\ pc = "call"
  /\ pc' = "return"
  /\ edges' = resolve_calls(symbols, calls)
  /\ UNCHANGED <<symbols, calls>>
  /\ UNCHANGED <<guardVars, impactVars, extractVars, systemVars>>

ResolveNext == ResolveCalls

SpecResolve == ResolveInit /\ [][ResolveNext]_vars

---------------------------------------------------------------------------
(* Claims about the resolver *)

\* the edges emitted for the call event on source line ln
EdgesOfLine(ln) == { j \in DOMAIN edges : edges[j].line = ln }

\* conf is exactly max(0.1, 1/n) = 1 / min(n, 10)
ConfExactInverse(conf, n) == conf * Min2(n, 10) = Scale

\* conf is max(0.1, 1/n rounded to the nearest multiple of 1/10000)
ConfRoundedInverse(conf, n) ==
  IF n > 10 THEN 10 * conf = Scale ELSE 2 * Abs(conf * n - Scale) <= n

\* the edge e is what the claim prescribes for the candidate list cands
EdgeFitsCandidates(e, cands, ConfOK(_, _)) ==
  LET n == Len(cands)
  IN  /\ n = 1 => /\ e.resolution = "resolved"
                  /\ e.confidence = Scale
                  /\ e.target = cands[1].id
                  /\ e.target_candidates = <<cands[1].id>>
      /\ n >= 2 => /\ e.resolution = "ambiguous"
                   /\ e.target = NullId
                   /\ Len(e.target_candidates) = n
                   /\ IsSortedByKey(e.target_candidates, IdKey)
                   /\ \A id \in Range(e.target_candidates) :
                        Cardinality({k \in 1..n : e.target_candidates[k] = id})
                          = Cardinality({k \in 1..n : cands[k].id = id})
                   /\ ConfOK(e.confidence, n)
      /\ n = 0 => /\ e.resolution = "external"
                  /\ e.target = NullId
                  /\ e.target_candidates = <<>>
                  /\ e.confidence = 0

OneEdgePerCall(ConfOK(_, _)) ==
  pc = "return" =>
    /\ Len(edges) = Len(calls)
    /\ \A i \in DOMAIN calls :
         /\ Cardinality(EdgesOfLine(calls[i].line)) = 1
         /\ \A j \in EdgesOfLine(calls[i].line) :
              /\ edges[j].source = calls[i].source_symbol_id
              /\ edges[j].target_name = calls[i].callee_name
              /\ EdgeFitsCandidates(edges[j], PickCandidates(calls[i], symbols), ConfOK)

\* C4 as stated: one edge per call event; one candidate gives 'resolved' with
\* confidence 1.0 and that target; n >= 2 candidates give 'ambiguous' with no
\* target, the sorted candidate ids and confidence exactly max(0.1, 1/n); no
\* candidate gives 'external' with confidence 0.0.
C4_ExactConfidence == OneEdgePerCall(ConfExactInverse)

\* C4 amended: as above, but the confidence of an ambiguous edge is
\* max(0.1, 1/n rounded to 4 decimals), e.g. 0.3333 for n = 3.
C4_RoundedConfidence == OneEdgePerCall(ConfRoundedInverse)

\* an ambiguous edge with three candidates has been emitted
C4_Witness ==
  /\ pc = "return"
  /\ \E j \in DOMAIN edges :
       edges[j].resolution = "ambiguous" /\ Len(edges[j].target_candidates) = 3

\* the candidate sets of the claim's four narrowing steps, as sets of symbols
FunctionsOf(syms) == { s \in Range(syms) : s.kind = "function" }
Step1(call) == { s \in FunctionsOf(symbols) : s.container = call.qualifier
                   /\ s.name = call.callee_name /\ s.arity = call.arity }
Step2(call) == { s \in FunctionsOf(symbols) : s.container = call.qualifier
                   /\ s.name = call.callee_name }
Step3(call) == { s \in FunctionsOf(symbols) : s.name = call.callee_name /\ s.arity = call.arity }
Step4(call) == { s \in FunctionsOf(symbols) : s.name = call.callee_name }

FirstNonEmpty(call) ==
  IF call.qualifier # None /\ Step1(call) # {} THEN Step1(call)
  ELSE IF call.qualifier # None /\ Step2(call) # {} THEN Step2(call)
  ELSE IF Step3(call) # {} THEN Step3(call)
  ELSE Step4(call)

\* C5: the candidates of every call event are the first non-empty set among
\* (qualifier, name, arity), (qualifier, name), (name, arity), (name); the first
\* two only for a qualified call; only functions are candidates, so a resolved
\* call edge targets a function symbol.
C5_NarrowingOrder ==
  pc = "return" =>
    \A i \in DOMAIN calls : \A j \in EdgesOfLine(calls[i].line) :
      /\ Range(edges[j].target_candidates) = { s.id : s \in FirstNonEmpty(calls[i]) }
      /\ Len(edges[j].target_candidates) = Cardinality(FirstNonEmpty(calls[i]))
      /\ edges[j].resolution = "resolved" =>
           \E s \in FunctionsOf(symbols) : s.id = edges[j].target

\* a qualified call fell through to the (name, arity) step and was resolved to
\* a function although a variable of the same name is in the table
C5_Witness ==
  /\ pc = "return"
  /\ \E i \in DOMAIN calls : \E j \in EdgesOfLine(calls[i].line) :
       /\ calls[i].qualifier # None
       /\ Step1(calls[i]) = {} /\ Step2(calls[i]) = {}
       /\ edges[j].resolution = "resolved"
       /\ \E s \in Range(symbols) : s.kind = "variable" /\ s.name = calls[i].callee_name

---------------------------------------------------------------------------
(* The impact engine on its own: compute_impact over the call graphs on a  *)
(* few symbols, self-calls and cycles included, with some unresolved edges *)

NumNodes == 3
MaxEdges == 3

ImpactSymbols ==
  [ i \in 1..NumNodes |->
      [ id |-> i, kind |-> "function", file |-> 1 + (i % 2),
        visibility |-> IF i = 1 THEN "public" ELSE "internal" ] ]

ImpactCultures == (1 :> "Citizen") @@ (2 :> "Law")

ImpactMutations == << [source |-> 1, target_name |-> "x"], [source |-> 1, target_name |-> "y"] >>

ResolvedEdge(s, t) ==
  [ source |-> s, target |-> t, target_name |-> "run", target_candidates |-> <<t>>,
    resolution |-> "resolved", confidence |-> Scale, qualifier |-> None, arity |-> 0,
    line |-> s * (NumNodes + 1) + t ]

UnresolvedEdgePool ==
  { [ source |-> 1, target |-> NullId, target_name |-> "tick", target_candidates |-> <<2, 3>>,
      resolution |-> "ambiguous", confidence |-> AmbiguousConfidence(2), qualifier |-> None,
      arity |-> 0, line |-> 1 ],
    [ source |-> 2, target |-> NullId, target_name |-> "missing", target_candidates |-> <<>>,
      resolution |-> "external", confidence |-> 0, qualifier |-> None, arity |-> 0, line |-> 2 ] }

EdgePool ==
  { ResolvedEdge(s, t) : s \in 1..NumNodes, t \in 1..NumNodes } \cup UnresolvedEdgePool

\* a set as a list, in some order
\* the edge lists: up to MaxEdges edges of the pool, in resolve_calls' order
EdgeLists ==
  { SortByKey(SetToList(es), CallEdgeKey) :
      es \in { x \in SUBSET EdgePool : Cardinality(x) <= MaxEdges } }

ImpactInit ==
  /\ pc = "call"
  /\ symbols = ImpactSymbols
  /\ calls = <<>>
  /\ edges \in EdgeLists
  /\ impact = <<>>
  /\ GuardIdle /\ ExtractIdle /\ SystemIdle

ComputeImpact ==
  /\ pc = "call"
  /\ pc' = "return"
  /\ impact' = compute_impact(symbols, edges, ImpactMutations, ImpactCultures)
  /\ UNCHANGED <<resolveVars, guardVars, extractVars, systemVars>>

ImpactNext == ComputeImpact

SpecImpact == ImpactInit /\ [][ImpactNext]_vars

\* u has a resolved call edge to s
CallsResolved(u, s) ==
  \E j \in DOMAIN edges :
    edges[j].resolution = "resolved" /\ edges[j].source = u /\ edges[j].target = s

\* C9: direct_callers is the number of distinct symbols with a resolved call
\* edge to s, and depth2_callers the number of distinct symbols other than s
\* from which s is reachable along one or two resolved call edges, for every
\* call graph, self-recursive calls and call cycles included.
C9_CallerCounts ==
  pc = "return" =>
    \A s \in SymbolIds(symbols) :
      /\ impact.symbols[s].direct_callers
           = Cardinality({ u \in SymbolIds(symbols) : CallsResolved(u, s) })
      /\ impact.symbols[s].depth2_callers
           = Cardinality({ u \in SymbolIds(symbols) \ {s} :
                             \/ CallsResolved(u, s)
                             \/ \E v \in SymbolIds(symbols) :
                                  CallsResolved(u, v) /\ CallsResolved(v, s) })

\* the chain 3 calls 2 calls 1: symbol 1 has one direct and two depth-2 callers
C9_Chain ==
  /\ pc = "return"
  /\ CallsResolved(3, 2) /\ CallsResolved(2, 1) /\ Len(edges) = 2
  /\ impact.symbols[1].direct_callers = 1
  /\ impact.symbols[1].depth2_callers = 2

---------------------------------------------------------------------------
(* Specification SpecBuild: full and incremental builds of one repository, *)
(* interleaved with edits of its files.                                    *)

MaxClock == 3

Durations == {3, 8}

\* the repository is either no git work tree or one whose HEAD commit holds
\* the initial files, with or without .semantic-index/ in .gitignore
GitStates(files) ==
  {NoGit} \cup { [repo |-> TRUE, ignored |-> b, tracked |-> DOMAIN files, tree |-> files] :
                 b \in BOOLEAN }

\* a cache document left by an earlier release: entries for the present
\* files with their hashes, under another cache or parser version (found
\* in the plain work tree)
StaleCaches(files) ==
  { [ cache_version |-> v[1], parser_version |-> v[2], generated_at |-> 0,
      files |-> [ a \in { AbsPath(p) : p \in DOMAIN files } |->
                    [ hash |-> file_sha256(files[RelOfAbs(a)]),
                      analysis |-> [ x \in DOMAIN analyze_file(RelOfAbs(a), files[RelOfAbs(a)])
                                            \cup {"rel_path"} |->
                                       IF x = "rel_path" THEN RelOfAbs(a)
                                       ELSE analyze_file(RelOfAbs(a), files[RelOfAbs(a)])[x] ] ] ] ] :
    v \in { <<"0.9.0", PARSER_VERSION>>, <<CACHE_VERSION, "swiftc-dump-parse-v0">> } }

BuildInit ==
  /\ PureIdle /\ ServerIdle
  /\ repo = [p \in Paths |-> 0]
  /\ \/ git \in GitStates(repo) /\ cacheFile = Missing
     \/ git = NoGit /\ cacheFile \in StaleCaches(repo)
  /\ graphFile = Missing /\ graphMtime = 0
  /\ clock = 0
  /\ stats = NoStats
  /\ last = NoBuild

\* an editor writes file p (creating it if need be)
WriteFile(p, c) ==
  /\ clock < MaxClock
  /\ repo[p] # c
  /\ repo' = [repo EXCEPT ![p] = c]
  /\ clock' = clock + 1
  /\ UNCHANGED <<pc, pureVars, git, cacheFile, stats, last, storeVars, serverVars>>

DeleteFile(p) ==
  /\ clock < MaxClock
  /\ repo[p] # Absent
  /\ repo' = [repo EXCEPT ![p] = Absent]
  /\ clock' = clock + 1
  /\ UNCHANGED <<pc, pureVars, git, cacheFile, stats, last, storeVars, serverVars>>

\* SemanticIndexer.build on the repository as it stands
Build(incremental, duration_ms) ==
  /\ clock < MaxClock
  /\ clock' = clock + 1
  /\ IF build_failure(repo, git, cacheFile, incremental) # "no"
     THEN LET r == build_aborted(graphFile, cacheFile,
                                 build_failure(repo, git, cacheFile, incremental))
          IN  /\ graphFile' = r.graph
              /\ cacheFile' = r.cache
              /\ stats' = r.stats
              /\ last' = [kind |-> "raised", prevGraph |-> graphFile, prevCache |-> cacheFile]
              /\ UNCHANGED graphMtime
     ELSE LET r == build(repo, git, graphFile, cacheFile, incremental, clock + 1, duration_ms)
          IN  /\ graphFile' = r.graph
              /\ graphMtime' = clock + 1
              /\ cacheFile' = r.cache
              /\ stats' = r.stats
              /\ last' = [ kind |-> IF incremental THEN "incremental" ELSE "full",
                           repo |-> repo,
                           found |-> r.found,
                           reused |-> r.reused,
                           own |-> r.own,
                           prevGraph |-> graphFile,
                           prevCache |-> cacheFile,
                           prevKind |-> last.kind,
                           prevRepo |-> Get(last, "repo"),
                           prevFound |-> Get(last, "found") ]
  /\ UNCHANGED <<pc, pureVars, repo, git, serverVars>>

BuildNext ==
  \/ \E p \in Paths, c \in Contents : WriteFile(p, c)
  \/ \E p \in Paths : DeleteFile(p)
  \/ \E incremental \in BOOLEAN, d \in Durations : Build(incremental, d)

SpecBuild == BuildInit /\ [][BuildNext]_vars

Built == last.kind \in {"full", "incremental"}

\* C1: when a full build follows a full build of the same snapshot (same
\* files, same contents, hence same extractor output), the graph document
\* it persists equals the one the first build persisted, meta included.
C1_FullBuildTwiceIdentical ==
  (last.kind = "full" /\ last.prevKind = "full" /\ last.prevRepo = last.repo) =>
    graphFile = last.prevGraph

\* the two documents differ in meta.repo_digest alone: the first build ran
\* in a clean work tree and created the index directory, which git status
\* then lists as untracked
C1_DigestDrift ==
  /\ last.kind = "full" /\ last.prevKind = "full" /\ last.prevRepo = last.repo
  /\ last.prevGraph.meta.repo_digest = <<"HEAD">>
  /\ graphFile.meta.repo_digest = <<"HEAD", "dirty", Sha256({<<"??", 0>>})>>
  /\ [graphFile EXCEPT !.meta.repo_digest = <<"HEAD">>] = last.prevGraph

\* the reuse condition as the claim words it, on the cache document found
\* by the last build
CacheAnswers(cache, files, p) ==
  /\ cache # Missing
  /\ cache.cache_version = CACHE_VERSION
  /\ cache.parser_version = PARSER_VERSION
  /\ AbsPath(p) \in DOMAIN cache.files
  /\ cache.files[AbsPath(p)].hash = file_sha256(files[p])

ChangedFiles == { p \in Range(last.found) : last.prevRepo[p] # last.repo[p] }

OneFileEdited ==
  /\ last.kind = "incremental" /\ last.prevKind = "full"
  /\ last.prevFound = last.found
  /\ Cardinality(ChangedFiles) = 1

\* C2: a build reuses the cached record of a file exactly when it is
\* incremental, the cache document carries the current cache and parser
\* versions and its entry for the file's absolute path has the file's
\* current content hash; a full build reuses none; the returned stats count
\* the reused and the re-parsed files; and a refresh after a full build and
\* an edit of exactly one of the n files reports 1 re-parsed, n - 1 reused.
C2_ReuseExactly ==
  Built =>
    /\ \A p \in Range(last.found) :
         p \in last.reused <=>
           (last.kind = "incremental" /\ CacheAnswers(last.prevCache, last.repo, p))
    /\ stats.files_reused = Cardinality(last.reused)
    /\ stats.files_reparsed = Len(last.found) - Cardinality(last.reused)
    /\ OneFileEdited =>
         stats.files_reparsed = 1 /\ stats.files_reused = Len(last.found) - 1

C2_Witness ==
  /\ OneFileEdited
  /\ Len(last.found) = NumPaths
  /\ last.reused = Range(last.found) \ ChangedFiles
  /\ stats.files_reparsed = 1 /\ stats.files_reused = NumPaths - 1

\* a cache of another version holds the right hash for a file and the
\* incremental build re-parses the file all the same
C2_StaleCacheIgnored ==
  /\ last.kind = "incremental" /\ last.prevCache # Missing
  /\ last.prevCache.cache_version # CACHE_VERSION
  /\ \E p \in Range(last.found) :
       /\ last.prevCache.files[AbsPath(p)].hash = file_sha256(last.repo[p])
       /\ p \notin last.reused

FourFields(m) == <<m.generated_at, m.build_duration_ms, m.files_reparsed, m.files_reused>>

DigestUnchanged ==
  /\ last.prevGraph # Missing
  /\ last.prevGraph.meta.content_digest = graphFile.meta.content_digest

\* C3: after a build, if the content digest it computed equals the one of the
\* graph persisted before it, generated_at, build_duration_ms, files_reparsed
\* and files_reused of the new meta are the previous meta's; otherwise they
\* are the build's own time, duration and counts.
C3_MetaKeptIffDigestEqual ==
  Built =>
    IF DigestUnchanged
    THEN FourFields(graphFile.meta) = FourFields(last.prevGraph.meta)
    ELSE FourFields(graphFile.meta) = FourFields(last.own)

\* a no-op rebuild whose own four values all differ from the ones it keeps
C3_Witness ==
  /\ Built /\ DigestUnchanged
  /\ FourFields(graphFile.meta) = FourFields(last.prevGraph.meta)
  /\ last.own.generated_at # graphFile.meta.generated_at
  /\ last.own.build_duration_ms # graphFile.meta.build_duration_ms
  /\ last.own.files_reparsed # graphFile.meta.files_reparsed
  /\ last.own.files_reused # graphFile.meta.files_reused

\* a rebuild after an edit writes its own four values
C3_WitnessChanged ==
  /\ Built /\ last.prevGraph # Missing /\ ~DigestUnchanged
  /\ FourFields(graphFile.meta) = FourFields(last.own)
  /\ FourFields(graphFile.meta) # FourFields(last.prevGraph.meta)

\* the graph a full build of the snapshot of the last build would persist
FullBuildGraph ==
  build(last.repo, git, last.prevGraph, last.prevCache, FALSE, clock, 3).graph

DerivedParts ==
  {"files", "symbols", "edges_calls", "edges_mutations", "edges_depends_on", "impact", "indexes"}

PartsOf(graph, parts) == [ k \in parts |-> graph[k] ]

WithoutHash(files) == [ i \in DOMAIN files |-> [files[i] EXCEPT !.hash = None] ]

\* C26: the graph an incremental build persists equals, in files, symbols,
\* call, mutation and dependency edges, impact and indexes, the graph a full
\* build of the same snapshot would persist.
C26_IncrementalEqualsFull ==
  last.kind = "incremental" =>
    PartsOf(graphFile, DerivedParts) = PartsOf(FullBuildGraph, DerivedParts)

\* an incremental build reuses the record of a file stored with CR LF line
\* ends: its file record carries the hash of the file's bytes, a full build's
\* the hash of the decoded text
C26_ReusedRecordHash ==
  /\ last.kind = "incremental"
  /\ \E i \in DOMAIN graphFile.files :
       LET p == graphFile.files[i].path
       IN  /\ p \in last.reused
           /\ last.repo[p] % 2 = 1
           /\ graphFile.files[i].hash = file_sha256(last.repo[p])
           /\ FullBuildGraph.files[i].hash = Sha256(CanonicalBytes(last.repo[p]))
           /\ graphFile.files[i].hash # FullBuildGraph.files[i].hash

\* what holds: the two graphs agree in every part but the hash of the file
\* records, and in that too when no reused file's bytes differ from the
\* encoding of its decoded text
C26_EqualButRecordHash ==
  last.kind = "incremental" =>
    /\ PartsOf(graphFile, DerivedParts \ {"files"}) = PartsOf(FullBuildGraph, DerivedParts \ {"files"})
    /\ WithoutHash(graphFile.files) = WithoutHash(FullBuildGraph.files)
    /\ (\A p \in last.reused : last.repo[p] % 2 = 0) =>
         graphFile.files = FullBuildGraph.files

\* C27: every graph persisted by a successful build, full or incremental,
\* passes doctor_check.
C27_PersistedGraphPasses ==
  Built => doctor_check(graphFile, TRUE) = [raised |-> "no", ok |-> TRUE, errors |-> <<>>]

\* an incremental build that reused a cached record and re-parsed another
\* file persisted a graph with call and dependency edges, and it passes
C27_Witness ==
  /\ last.kind = "incremental" /\ last.reused # {} /\ last.reused # Range(last.found)
  /\ \E e \in Range(graphFile.edges_calls) : e.target # NullId
  /\ graphFile.edges_depends_on # <<>>
  /\ doctor_check(graphFile, TRUE).ok

\* C28: the persisted meta satisfies files_reparsed + files_reused =
\* files_total, also when the two counts were carried over from the graph
\* persisted before.
C28_CountsAddUp ==
  Built =>
    graphFile.meta.files_reparsed + graphFile.meta.files_reused = graphFile.meta.files_total

\* counts carried over from the previous graph that differ from the counts
\* of the stats returned
C28_Witness ==
  /\ Built /\ DigestUnchanged
  /\ graphFile.meta.files_reparsed # stats.files_reparsed
  /\ graphFile.meta.files_reparsed = last.prevGraph.meta.files_reparsed
  /\ graphFile.meta.files_reparsed + graphFile.meta.files_reused = graphFile.meta.files_total
  /\ graphFile.meta.files_total > 0

\* C29: after a successful build the cache holds an entry for exactly the
\* discovered files, each with the hash of the file's content as read by
\* the build, under the current cache_version and parser_version.
C29_CacheMatchesDiscovery ==
  Built =>
    /\ cacheFile # Missing
    /\ DOMAIN cacheFile.files = { AbsPath(p) : p \in Range(last.found) }
    /\ \A p \in Range(last.found) : cacheFile.files[AbsPath(p)].hash = file_sha256(last.repo[p])
    /\ cacheFile.cache_version = CACHE_VERSION
    /\ cacheFile.parser_version = PARSER_VERSION

\* a build after a deletion: the cache found held an entry for the deleted
\* file, the cache written holds none
C29_Witness ==
  /\ Built /\ last.prevCache # Missing
  /\ \E a \in DOMAIN last.prevCache.files : a \notin DOMAIN cacheFile.files
  /\ DOMAIN cacheFile.files = { AbsPath(p) : p \in Range(last.found) }
  /\ cacheFile.files # <<>>

---------------------------------------------------------------------------
(* Specification SpecQuery: a persisted graph, queried on the engine and   *)
(* through the MCP server.                                                 *)

MaxRequests == 2
MaxDepthArg == 3

QuerySymbol(p, rank, name) ==
  [ id |-> symbol_id(p, rank), name |-> name, kind |-> "function", container |-> TypeName(p),
    arity |-> 0, file |-> AbsPath(p), visibility |-> "internal", line |-> rank,
    culture |-> classify_file(p, <<>>), is_public_api |-> FALSE ]

\* A.run, A.tick in the Law file 1, B.helper, B.run in the Citizen file 2
QuerySymbols ==
  << QuerySymbol(1, 1, "run"), QuerySymbol(1, 2, "tick"),
     QuerySymbol(2, 1, "helper"), QuerySymbol(2, 2, "run") >>

QueryCall(source, callee, qualifier, line) ==
  [ source_symbol_id |-> source, callee_name |-> callee, qualifier |-> qualifier,
    arity |-> 0, line |-> line ]

\* B.run -> B.helper -> A.tick -> A.run is a chain of three resolved calls;
\* A.run -> B.helper closes a cycle; run() from B.run is ambiguous
QueryCallPool ==
  << QueryCall(symbol_id(1, 2), "run", "A", 1),
     QueryCall(symbol_id(2, 1), "tick", None, 2),
     QueryCall(symbol_id(2, 2), "helper", None, 3),
     QueryCall(symbol_id(1, 1), "helper", None, 4),
     QueryCall(symbol_id(2, 2), "run", None, 5) >>

QueryFiles ==
  << [ id |-> AbsPath(1), path |-> 1, culture |-> classify_file(1, <<>>) ],
     [ id |-> AbsPath(2), path |-> 2, culture |-> classify_file(2, <<>>) ] >>

\* the document a build persists for the symbols above and the chosen calls
QueryGraph(chosen) ==
  LET cs == flatten_calls(<< [calls |-> SelectSeq(QueryCallPool, LAMBDA c : c.line \in chosen)] >>)
      edges_calls == resolve_calls(QuerySymbols, cs)
      culture_by_file == [ a \in { AbsPath(1), AbsPath(2) } |-> classify_file(RelOfAbs(a), <<>>) ]
  IN  normalize_graph(
        [ meta |-> [ schema_version |-> SCHEMA_VERSION, generated_at |-> 1 ],
          files |-> QueryFiles,
          symbols |-> QuerySymbols,
          edges_calls |-> edges_calls,
          edges_mutations |-> <<>>,
          edges_depends_on |-> build_dependency_edges(QuerySymbols, edges_calls),
          impact |-> compute_impact(QuerySymbols, edges_calls, <<>>, culture_by_file),
          indexes |-> build_indexes(QuerySymbols, QueryFiles, edges_calls) ])

QueryGraphs == { QueryGraph(chosen) : chosen \in SUBSET (1..Len(QueryCallPool)) }

UnknownIds == {99}
QueryIds == { QuerySymbols[i].id : i \in DOMAIN QuerySymbols } \cup UnknownIds
DepthArgs == 1..MaxDepthArg

\* the arguments objects a client sends: with or without depth, or empty
ArgumentSets ==
  [symbol_id : QueryIds] \cup [symbol_id : QueryIds, depth : DepthArgs] \cup { <<>> }

\* the targets of impact_radius: a symbol id as a symbol or with a
\* target_type that is neither, a file id as a file (file 3 is not in the
\* graph)
SymbolTargets ==
  { <<id, "symbol">> : id \in QueryIds } \cup { <<symbol_id(1, 1), "module">> }

FileTargets == { <<AbsPath(p), "file">> : p \in 1..3 }

RadiusArguments(targets) ==
  { [target_id |-> t[1], target_type |-> t[2]] : t \in targets }
  \cup { [target_id |-> t[1], target_type |-> t[2], depth |-> d] :
           t \in targets, d \in DepthArgs }

FindArguments ==
  [query : {"run", "helper", "missing"}]
  \cup { [query |-> "run", kind |-> "function", culture |-> "Law", limit |-> 1], <<>> }

Requests ==
  [ method : {"tools/call"}, id : {1},
    params : [ name : {"get_callers", "get_callees", "refactor_guardrail", "no_such_tool"},
               arguments : ArgumentSets ] ]
  \cup [ method : {"tools/call"}, id : {1},
         params : [ name : {"impact_radius"},
                    arguments : RadiusArguments(SymbolTargets)
                                \cup { [target_id |-> symbol_id(1, 1)], <<>> } ] ]
  \cup [ method : {"tools/call"}, id : {1},
         params : [ name : {"find_symbol"}, arguments : FindArguments ] ]
  \cup [ method : {"tools/call"}, id : {1},
         params : [ name : {"graph_summary"}, arguments : {<<>>} ] ]
  \cup [ method : {"initialize", "notifications/initialized", "ping", "tools/list",
                   "no/such/method"},
         id : {1}, params : {<<>>} ]

FileRequests ==
  [ method : {"tools/call"}, id : {1},
    params : [ name : {"impact_radius"}, arguments : RadiusArguments(FileTargets) ] ]

QueryInit ==
  /\ PureIdle /\ BuildIdle
  /\ graphFile \in QueryGraphs \cup {Missing, Unreadable} /\ graphMtime = 1
  /\ server = NewServer
  /\ request = NoRequest
  /\ response = NoResponse

\* get_callers / get_callees called on an engine built from the graph
CallEngine(name, sid, depth) ==
  /\ clock < MaxRequests
  /\ graphFile \notin {Missing, Unreadable}
  /\ clock' = clock + 1
  /\ request' = [via |-> "engine", name |-> name, symbol_id |-> sid, depth |-> depth]
  /\ response' = IF name = "get_callers"
                 THEN get_callers(GraphQueryEngine(graphFile), sid, depth)
                 ELSE get_callees(GraphQueryEngine(graphFile), sid, depth)
  /\ UNCHANGED <<pc, pureVars, repo, git, cacheFile, stats, last, storeVars, server>>

\* impact_radius called on an engine built from the graph
ImpactRadius(target_id, target_type, depth) ==
  /\ clock < MaxRequests
  /\ graphFile \notin {Missing, Unreadable}
  /\ clock' = clock + 1
  /\ request' = [ via |-> "radius", target_id |-> target_id, target_type |-> target_type,
                  depth |-> depth ]
  /\ response' = impact_radius(GraphQueryEngine(graphFile), target_id, target_type, depth)
  /\ UNCHANGED <<pc, pureVars, repo, git, cacheFile, stats, last, storeVars, server>>

\* what the last answer was: nothing yet, an answer of the engine, a result,
\* an error payload or a protocol error
Outcome(resp) ==
  IF "jsonrpc" \notin DOMAIN resp THEN "none"
  ELSE IF "error" \in DOMAIN resp THEN "protocol error"
  ELSE IF "isError" \in DOMAIN resp.result /\ resp.result.isError THEN "tool error"
  ELSE "result"

\* the server reads one request and answers it (clock counts the requests)
HandleRequest(req) ==
  /\ clock < MaxRequests
  /\ clock' = clock + 1
  /\ request' = [via |-> "rpc", name |-> req.method, body |-> req, after |-> Outcome(response)]
  /\ server' = handle_request(server, req, graphFile, graphMtime).server
  /\ response' = handle_request(server, req, graphFile, graphMtime).response
  /\ UNCHANGED <<pc, pureVars, repo, git, cacheFile, stats, last, storeVars>>

QueryNext ==
  \/ \E name \in {"get_callers", "get_callees"}, sid \in QueryIds, depth \in DepthArgs :
       CallEngine(name, sid, depth)
  \/ \E t \in SymbolTargets, depth \in DepthArgs : ImpactRadius(t[1], t[2], depth)
  \/ \E t \in FileTargets, depth \in DepthArgs : ImpactRadius(t[1], t[2], depth)
  \/ \E req \in Requests : HandleRequest(req)
  \/ \E req \in FileRequests : HandleRequest(req)

SpecQuery == QueryInit /\ [][QueryNext]_vars

\* the nodes of the answer to a get_callers / get_callees call
AnsweredNodes ==
  IF request.via = "engine" /\ response.raised = "no" THEN response.result.nodes
  ELSE IF /\ request.via = "rpc" /\ request.name = "tools/call"
          /\ request.body.params.name \in {"get_callers", "get_callees"}
          /\ ~response.result.isError
  THEN response.result.content.nodes
  ELSE <<>>

\* C10: whatever depth is requested, on the engine or through tools/call,
\* get_callers and get_callees answer with no node farther than 2 from the
\* root symbol.
C10_DepthCappedAtTwo ==
  \A i \in DOMAIN AnsweredNodes : AnsweredNodes[i].distance <= DEFAULT_IMPACT_DEPTH

\* tools/call get_callers on A.run with depth 3 answers B.run at distance 3
C10_ThreeHops ==
  /\ request.via = "rpc" /\ request.name = "tools/call"
  /\ request.body.params = [ name |-> "get_callers",
                             arguments |-> [symbol_id |-> symbol_id(1, 1), depth |-> 3] ]
  /\ \E i \in DOMAIN AnsweredNodes :
       AnsweredNodes[i].id = symbol_id(2, 2) /\ AnsweredNodes[i].distance = 3

---------------------------------------------------------------------------
(* impact_radius *)

\* the resolved call edges of the graph on disk, read in both directions
DirectedEdges ==
  { <<e.source, e.target>> : e \in { x \in Range(graphFile.edges_calls) :
                                        x.resolution = "resolved" } }

UndirectedEdges == DirectedEdges \cup { <<e[2], e[1]>> : e \in DirectedEdges }

\* the seeds of the last impact_radius call
RadiusSeeds ==
  IF request.target_type = "symbol" THEN {request.target_id}
  ELSE Range(graphFile.indexes.symbols_by_file[request.target_id])

\* the symbols at most k hops from a seed
RECURSIVE WithinHops(_)
WithinHops(k) ==
  IF k = 0 THEN RadiusSeeds
  ELSE WithinHops(k - 1)
       \cup { e[2] : e \in { x \in UndirectedEdges : x[1] \in WithinHops(k - 1) } }

\* the least hop count from any seed
HopDistance(v) == CHOOSE k \in 0..request.depth :
                    v \in WithinHops(k) /\ (k = 0 \/ v \notin WithinHops(k - 1))

RadiusAnswered == request.via = "radius" /\ response.raised = "no"

ImpactScore(sid) == graphFile.impact.symbols[sid].score

ExactInfluence(n) == n.influence * Max2(1, n.distance) = ImpactScore(n.id)

\* influence is a multiple of 0.0001 nearest to score / max(1, distance)
RoundedInfluence(n) ==
  2 * Abs(n.influence * Max2(1, n.distance) - ImpactScore(n.id)) <= Max2(1, n.distance)

RadiusNodesRight(InfluenceOK(_)) ==
  LET nodes == response.result.nodes
  IN  /\ { nodes[i].id : i \in DOMAIN nodes } = WithinHops(request.depth) \ RadiusSeeds
      /\ \A i, j \in DOMAIN nodes : nodes[i].id = nodes[j].id => i = j
      /\ \A i \in DOMAIN nodes :
           /\ nodes[i].distance = HopDistance(nodes[i].id)
           /\ nodes[i].impact_score = ImpactScore(nodes[i].id)
           /\ InfluenceOK(nodes[i])
      /\ Range(response.result.files_touched)
           = { LastWithId(graphFile.symbols, nodes[i].id).file : i \in DOMAIN nodes }
      /\ \A i, j \in DOMAIN response.result.files_touched :
           response.result.files_touched[i] = response.result.files_touched[j] => i = j

C11_RoundedAtThree ==
  /\ RadiusAnswered /\ request.target_type = "symbol"
  /\ \E i \in DOMAIN response.result.nodes :
       /\ response.result.nodes[i].distance = 3
       /\ ~ExactInfluence(response.result.nodes[i])
       /\ RoundedInfluence(response.result.nodes[i])

---------------------------------------------------------------------------
(* handle_request: errors *)

ToolCall == request.via = "rpc" /\ request.body.method = "tools/call"

GraphLoadable == graphFile \notin {Missing, Unreadable}

\* a required argument of the named tool is absent
MissingArgument(name, args) ==
  \/ name \in {"get_callers", "get_callees", "refactor_guardrail"} /\ "symbol_id" \notin DOMAIN args
  \/ name = "impact_radius" /\ {"target_id", "target_type"} \ DOMAIN args # {}
  \/ name = "find_symbol" /\ "query" \notin DOMAIN args

InvalidTargetType(name, args) ==
  name = "impact_radius" /\ args.target_type \notin {"symbol", "file"}

\* the symbol id or the file id of the request is not in the graph on disk
UnknownTarget(name, args) ==
  \/ /\ name \in {"get_callers", "get_callees", "refactor_guardrail"}
     /\ args.symbol_id \notin { graphFile.symbols[i].id : i \in DOMAIN graphFile.symbols }
  \/ /\ name = "impact_radius" /\ args.target_type = "symbol"
     /\ args.target_id \notin { graphFile.symbols[i].id : i \in DOMAIN graphFile.symbols }
  \/ /\ name = "impact_radius" /\ args.target_type = "file"
     /\ args.target_id \notin { graphFile.files[i].id : i \in DOMAIN graphFile.files }

\* the cases the error taxonomy lists for tools/call
ToolMisuse(name, args) ==
  \/ ~GraphLoadable
  \/ name \notin ToolNames
  \/ MissingArgument(name, args)
  \/ ~MissingArgument(name, args) /\ InvalidTargetType(name, args)
  \/ ~MissingArgument(name, args) /\ ~InvalidTargetType(name, args) /\ UnknownTarget(name, args)

KnownMethods == {"initialize", "notifications/initialized", "ping", "tools/list", "tools/call"}

\* C12: every tools/call is answered with a JSON-RPC success envelope, whose
\* payload has isError = true for an unknown tool, an unknown symbol or file
\* id, an invalid target_type, a missing required argument and a missing or
\* unreadable graph file; an unknown method is answered with the JSON-RPC
\* error -32601; and each answer is the one a freshly started server gives to
\* the same request, whatever was asked before.
C12_ErrorsContained ==
  request.via = "rpc" =>
    /\ ToolCall =>
         /\ DOMAIN response = {"jsonrpc", "id", "result"}
         /\ response.result.isError \in BOOLEAN
         /\ ToolMisuse(request.body.params.name, request.body.params.arguments)
              => response.result.isError
    /\ request.body.method \notin KnownMethods =>
         /\ DOMAIN response = {"jsonrpc", "id", "error"}
         /\ response.error.code = -32601
    /\ response = handle_request(NewServer, request.body, graphFile, graphMtime).response

\* a query on a known symbol answered with a result right after a request
\* that was answered with an error payload
C12_Witness ==
  /\ ToolCall /\ clock = 2 /\ request.after = "tool error"
  /\ server.engine # Missing
  /\ request.body.params.name = "get_callers"
  /\ ~ToolMisuse(request.body.params.name, request.body.params.arguments)
  /\ ~response.result.isError
  /\ Len(response.result.content.nodes) > 0

\* an unknown method answered with -32601 after a tool error
C12_WitnessMethod ==
  /\ request.via = "rpc" /\ request.body.method = "no/such/method"
  /\ request.after = "tool error"
  /\ response.error.code = METHOD_NOT_FOUND

\* a missing graph file answered with an error payload
C12_WitnessNoGraph ==
  /\ ToolCall /\ graphFile = Missing
  /\ response.result.isError /\ response.result.content = [error |-> "FileNotFoundError"]

---------------------------------------------------------------------------
(* Specification SpecServe: a build saves the graph and then the cache with *)
(* write_json while the query server answers requests and another process  *)
(* reads the files.  write_json is path.write_text: the file is opened for *)
(* writing, which truncates it, and the text is written afterwards.  clock *)
(* is the time the file system stamps on a modified file; it advances on   *)
(* its own.                                                                *)

MaxTicks == 2

\* the documents successive builds save
ServeGraphs == { QueryGraph(chosen) : chosen \in {{}, {1}, {1, 2, 3}} }

CacheOf(graph) ==
  [ cache_version |-> CACHE_VERSION, parser_version |-> PARSER_VERSION,
    generated_at |-> graph.meta.generated_at, files |-> <<>> ]

ServeRequests ==
  [ method : {"tools/call"}, id : {1},
    params : { [ name |-> "get_callers", arguments |-> [symbol_id |-> symbol_id(1, 1)] ],
               [ name |-> "graph_summary", arguments |-> <<>> ] } ]
  \cup [ method : {"ping"}, id : {1}, params : {<<>>} ]

ServeInit ==
  /\ PureIdle
  /\ repo = <<>> /\ git = NoGit
  /\ graphFile \in ServeGraphs /\ graphMtime = 0
  /\ cacheFile = CacheOf(graphFile)
  /\ clock = 0
  /\ stats = NoStats
  /\ last = [kind |-> "saved", graph |-> graphFile]
  /\ ServerIdle

\* the file system's clock moves on
Tick ==
  /\ clock < MaxTicks
  /\ clock' = clock + 1
  /\ UNCHANGED <<pc, pureVars, repo, git, cacheFile, stats, last, storeVars, serverVars>>

\* save_graph, write_json: open(path, "w") leaves the graph file empty
OpenGraph(graph) ==
  /\ pc = "idle"
  /\ graph # graphFile
  /\ pc' = "graph open"
  /\ graphFile' = Unreadable
  /\ graphMtime' = clock
  /\ last' = [kind |-> "saving", graph |-> graph, prevGraph |-> graphFile,
              prevCache |-> cacheFile]
  /\ UNCHANGED <<pureVars, repo, git, cacheFile, clock, stats, serverVars>>

\* save_graph, write_json: the text is written and the file closed
WriteGraph ==
  /\ pc = "graph open"
  /\ pc' = "graph written"
  /\ graphFile' = last.graph
  /\ graphMtime' = clock
  /\ UNCHANGED <<pureVars, repo, git, cacheFile, clock, stats, last, serverVars>>

\* save_cache, write_json: open(path, "w") leaves the cache file empty
OpenCache ==
  /\ pc = "graph written"
  /\ pc' = "cache open"
  /\ cacheFile' = Unreadable
  /\ UNCHANGED <<pureVars, repo, git, clock, stats, last, storeVars, serverVars>>

\* save_cache, write_json: the text is written and the file closed
WriteCache ==
  /\ pc = "cache open"
  /\ pc' = "idle"
  /\ cacheFile' = CacheOf(last.graph)
  /\ last' = [kind |-> "saved", graph |-> last.graph]
  /\ UNCHANGED <<pureVars, repo, git, clock, stats, storeVars, serverVars>>

\* another process (a second build starting, the doctor) reads both files
ReadFiles ==
  /\ stats' = [ raised |-> "read",
                graph |-> read_json(graphFile).raised,
                cache |-> read_json(cacheFile).raised ]
  /\ UNCHANGED <<pc, pureVars, repo, git, cacheFile, clock, last, storeVars, serverVars>>

\* the server answers a request; the request is kept with the file and the
\* server as they were when it arrived
Serve(req) ==
  /\ request' = [ via |-> "serve", name |-> req.method, body |-> req,
                  disk |-> graphFile, mtime |-> graphMtime, before |-> server ]
  /\ server' = handle_request(server, req, graphFile, graphMtime).server
  /\ response' = handle_request(server, req, graphFile, graphMtime).response
  /\ UNCHANGED <<pc, pureVars, repo, git, cacheFile, clock, stats, last, storeVars>>

ServeNext ==
  \/ Tick
  \/ \E graph \in ServeGraphs : OpenGraph(graph)
  \/ WriteGraph
  \/ OpenCache
  \/ WriteCache
  \/ ReadFiles
  \/ \E req \in ServeRequests : Serve(req)

SpecServe == ServeInit /\ [][ServeNext]_vars

\* C13: at every instant the graph file and the cache file each hold a
\* complete document, the previous one or the new one; no reader sees an
\* empty or partially written file.
C13_AlwaysWholeDocument ==
  /\ graphFile \in ServeGraphs
  /\ cacheFile \in { CacheOf(g) : g \in ServeGraphs }

\* while the build is between opening and writing the graph file, the
\* server fails to load it and another process fails to read it
C13_TornRead ==
  /\ pc = "graph open"
  /\ request.via = "serve" /\ request.body.method = "tools/call"
  /\ request.disk = Unreadable
  /\ response.result.isError
  /\ response.result.content = [error |-> "JSONDecodeError"]
  /\ stats = [raised |-> "read", graph |-> "JSONDecodeError", cache |-> "no"]

Served == request.via = "serve" /\ request.body.method = "tools/call"

DiskLoadable == request.disk \notin {Missing, Unreadable}

\* what a server that has loaded nothing yet answers to the same request
FreshAnswer == handle_request(NewServer, request.body, request.disk, request.mtime).response

\* C18: every tools/call is answered from the graph that is the document on
\* disk when the request arrives; once the file is replaced, no later call
\* is answered from the earlier graph.
C18_AnsweredFromDisk ==
  Served /\ DiskLoadable =>
    /\ server.engine # Missing
    /\ server.engine.graph = request.disk
    /\ response = FreshAnswer

\* the graph file was replaced with its modification time unchanged since
\* the server's load: get_callers is answered, without an error, from the
\* earlier graph, and the answer is not the one the graph on disk gives
C18_StaleAnswer ==
  /\ Served /\ DiskLoadable
  /\ request.body.params.name = "get_callers"
  /\ request.before.engine # Missing
  /\ request.before.graph_mtime_ns = request.mtime
  /\ server.engine.graph \in ServeGraphs
  /\ server.engine.graph # request.disk
  /\ ~response.result.isError
  /\ response # FreshAnswer

\* the engine is replaced only when none is loaded or the modification time
\* differs from the recorded one, and then it is the graph on disk
C18_ReloadOnlyOnChange ==
  Served /\ server # request.before =>
    /\ request.before.engine = Missing \/ request.before.graph_mtime_ns # request.mtime
    /\ DiskLoadable
    /\ server = [engine |-> GraphQueryEngine(request.disk), graph_mtime_ns |-> request.mtime]

\* the engine is always built of one whole graph
C18_OneGraph ==
  server.engine # Missing => \E g \in ServeGraphs : server.engine = GraphQueryEngine(g)

\* when the modification time differs from the recorded one the answer is
\* the one the graph on disk gives
C18_FreshWhenTimeDiffers ==
  /\ Served /\ DiskLoadable
  /\ request.before.engine = Missing \/ request.before.graph_mtime_ns # request.mtime
  => server.engine.graph = request.disk /\ response = FreshAnswer


---------------------------------------------------------------------------
(* Specification SpecAbort: builds of a repository in which an edit can    *)
(* leave a file that the compiler frontend rejects.                        *)

AbortInit ==
  /\ PureIdle /\ ServerIdle
  /\ repo = [p \in Paths |-> 0]
  /\ git = NoGit
  /\ cacheFile = Missing
  /\ graphFile = Missing /\ graphMtime = 0
  /\ clock = 0
  /\ stats = NoStats
  /\ last = NoBuild

AbortNext ==
  \/ \E p \in Paths, c \in Contents \cup BrokenContents : WriteFile(p, c)
  \/ \E incremental \in BOOLEAN, d \in Durations : Build(incremental, d)

SpecAbort == AbortInit /\ [][AbortNext]_vars

\* C14: a build in which the extraction of a file fails with ParseError ends
\* with that error and leaves the graph file and the cache file exactly as
\* they were; a build that ends normally extracted no rejected file.
C14_ParseErrorWritesNothing ==
  /\ (last.kind = "raised" /\ stats.raised = "ParseError") =>
       /\ graphFile = last.prevGraph
       /\ cacheFile = last.prevCache
  /\ Built =>
       \A p \in Range(last.found) : last.repo[p] \in BrokenContents => p \in last.reused
  /\ \A p \in Paths :
       (repo[p] \in BrokenContents /\ graphFile # Missing)
         => graphFile.files[CHOOSE i \in DOMAIN graphFile.files : graphFile.files[i].path = p].hash
              # file_sha256(repo[p])

\* an incremental build fails on the second file after the first was served
\* from the cache of an earlier build; graph and cache are those of the
\* earlier build
C14_Witness ==
  /\ last.kind = "raised" /\ stats.raised = "ParseError"
  /\ repo[1] \notin BrokenContents /\ repo[2] \in BrokenContents
  /\ graphFile # Missing /\ cacheFile # Missing
  /\ graphFile = last.prevGraph /\ cacheFile = last.prevCache
  /\ UseCachedEntry(TRUE, cacheFile.files, AbsPath(1), file_sha256(repo[1]))
  /\ Len(graphFile.files) = NumPaths

---------------------------------------------------------------------------
(* Specification SpecDoctor: the consistency check run on a persisted      *)
(* graph that was edited after the build wrote it.                         *)

MaxTampers == 2

\* the graphs of two repositories: one without and one with a call, and so
\* a dependency edge, between the two files
DoctorGraphs ==
  { build((1 :> 0) @@ (2 :> c), NoGit, Missing, Missing, FALSE, 1, 3).graph : c \in {0, 2} }

DoctorInit ==
  /\ PureIdle /\ BuildIdle /\ ServerIdle
  /\ graphFile \in DoctorGraphs \cup {Missing}
  /\ graphMtime = 0

Without(s, i) == [ k \in 1..(Len(s) - 1) |-> IF k < i THEN s[k] ELSE s[k + 1] ]

Tampered(graph) ==
  /\ clock < MaxTampers
  /\ clock' = clock + 1
  /\ graphFile' = graph
  /\ stats' = NoStats
  /\ UNCHANGED <<pc, pureVars, repo, git, cacheFile, last, graphMtime, serverVars>>

\* an entry of the symbols list is deleted from the file
DropSymbol(i) ==
  /\ graphFile # Missing /\ "symbols" \in DOMAIN graphFile
  /\ i \in DOMAIN graphFile.symbols
  /\ Tampered([graphFile EXCEPT !.symbols = Without(@, i)])

\* a symbol is deleted together with its entry in symbols_by_file
ForgetSymbol(i) ==
  /\ graphFile # Missing /\ {"symbols", "indexes"} \subseteq DOMAIN graphFile
  /\ i \in DOMAIN graphFile.symbols
  /\ Tampered([graphFile EXCEPT
       !.symbols = Without(@, i),
       !.indexes.symbols_by_file =
         [ f \in DOMAIN @ |-> SelectSeq(@[f], LAMBDA sid : sid # graphFile.symbols[i].id) ]])

\* a file record is deleted from the file
DropFile(i) ==
  /\ graphFile # Missing /\ "files" \in DOMAIN graphFile
  /\ i \in DOMAIN graphFile.files
  /\ Tampered([graphFile EXCEPT !.files = Without(@, i)])

\* a top-level key is deleted from the file
DropKey(k) ==
  /\ graphFile # Missing /\ k \in DOMAIN graphFile
  /\ Tampered([ x \in DOMAIN graphFile \ {k} |-> graphFile[x] ])

\* the file carries the schema version of another release
SetSchema(v) ==
  /\ graphFile # Missing /\ "meta" \in DOMAIN graphFile
  /\ graphFile.meta.schema_version # v
  /\ Tampered([graphFile EXCEPT !.meta.schema_version = v])

Doctor(strict) ==
  /\ stats' = [ x \in {"by"} \cup DOMAIN doctor_check(graphFile, strict) |->
                  IF x = "by" THEN "doctor" ELSE doctor_check(graphFile, strict)[x] ]
  /\ UNCHANGED <<pc, pureVars, repo, git, cacheFile, clock, last, storeVars, serverVars>>

DoctorNext ==
  \/ \E i \in 1..6 : DropSymbol(i)
  \/ \E i \in 1..6 : ForgetSymbol(i)
  \/ \E i \in 1..NumPaths : DropFile(i)
  \/ \E k \in Range(graph_top_level_keys) : DropKey(k)
  \/ SetSchema("0.9.0")
  \/ \E strict \in BOOLEAN : Doctor(strict)

SpecDoctor == DoctorInit /\ [][DoctorNext]_vars

DoctorRan == "by" \in DOMAIN stats /\ graphFile # Missing

Part(field) == GetOr(graphFile, field, <<>>)
IndexPart(name) == GetOr(Part("indexes"), name, <<>>)

PresentSymbols == { x.id : x \in Range(Part("symbols")) }
PresentFiles == { x.id : x \in Range(Part("files")) }

\* the symbol ids and the file ids the edges and the indexes refer to
ReferredSymbols ==
  UNION { {e.source, e.target} : e \in Range(Part("edges_calls")) }
  \cup UNION { {e.source, e.target_symbol} : e \in Range(Part("edges_mutations")) }
  \cup UNION { Range(IndexPart("symbols_by_name")[n]) : n \in DOMAIN IndexPart("symbols_by_name") }
  \cup UNION { Range(IndexPart("symbols_by_file")[f]) : f \in DOMAIN IndexPart("symbols_by_file") }
  \cup UNION { {t} \cup Range(IndexPart("callers_by_symbol")[t]) :
                 t \in DOMAIN IndexPart("callers_by_symbol") }
  \cup UNION { {u} \cup Range(IndexPart("callees_by_symbol")[u]) :
                 u \in DOMAIN IndexPart("callees_by_symbol") }
  \cup DOMAIN IndexPart("unresolved_calls_by_symbol")

ReferredFiles ==
  UNION { {e.source_file, e.target_file} : e \in Range(Part("edges_depends_on")) }
  \cup DOMAIN IndexPart("symbols_by_file")
  \cup UNION { Range(IndexPart("files_by_culture")[c]) : c \in DOMAIN IndexPart("files_by_culture") }

Dangling ==
  \/ (ReferredSymbols \ {NullId}) \ PresentSymbols # {}
  \/ ReferredFiles \ PresentFiles # {}

WellShaped ==
  /\ Range(graph_top_level_keys) \subseteq DOMAIN graphFile
  /\ graphFile.meta.schema_version = SCHEMA_VERSION

\* C15: doctor_check answers ok = false, with a message, for every graph
\* holding a dangling reference in a call, mutation or dependency edge or in
\* an index, and ok = true only for a graph without one that has all the
\* top-level keys and the current schema version.
C15_DoctorFindsEveryDangling ==
  DoctorRan =>
    /\ Dangling => ~stats.ok /\ Len(stats.errors) > 0
    /\ stats.ok => ~Dangling /\ WellShaped

\* the doctor accepts a graph whose mutation edge targets a symbol that is
\* gone, and that the name index still lists
C15_DanglingAccepted ==
  /\ DoctorRan /\ stats.ok
  /\ \E e \in Range(graphFile.edges_mutations) :
       e.target_symbol # NullId /\ e.target_symbol \notin PresentSymbols
  /\ \E n \in DOMAIN graphFile.indexes.symbols_by_name :
       Range(graphFile.indexes.symbols_by_name[n]) \ PresentSymbols # {}

\* the references the doctor does check: what it accepts has the top-level
\* keys and the schema version, and no call edge end, dependency edge file
\* or symbols_by_file entry without its symbol or file
C15_CheckedReferences ==
  (DoctorRan /\ stats.ok) =>
    /\ WellShaped
    /\ \A e \in Range(graphFile.edges_calls) :
         {e.source, e.target} \ {NullId} \subseteq PresentSymbols
    /\ \A e \in Range(graphFile.edges_depends_on) :
         {e.source_file, e.target_file} \subseteq PresentFiles
    /\ \A f \in DOMAIN graphFile.indexes.symbols_by_file :
         Range(graphFile.indexes.symbols_by_file[f]) \subseteq PresentSymbols

---------------------------------------------------------------------------
(* Specification SpecExtract: analyze_file on the dump of one file, and    *)
(* the symbols list made of its record.                                    *)

MaxLines == 3

DumpLine(decl, name, line, col, balance) ==
  [decl |-> decl, name |-> name, line |-> line, col |-> col, balance |-> balance]

\* type A opening a subtree; function run, opening one or not, and a second
\* run declared further right on the same source line; variable count,
\* twice on one source line and once on the next; lines that close subtrees
DumpLines ==
  { DumpLine("type", "A", 1, 1, 1),
    DumpLine("func", "run", 2, 5, 1),
    DumpLine("func", "run", 2, 5, 0),
    DumpLine("func", "run", 2, 30, 0),
    DumpLine("var", "count", 2, 9, 0),
    DumpLine("var", "count", 2, 40, 0),
    DumpLine("var", "count", 3, 9, 0),
    DumpLine("none", "", 0, 0, -1),
    DumpLine("none", "", 0, 0, -2) }

Dumps == UNION { [1..n -> DumpLines] : n \in 0..MaxLines }

ExtractInit ==
  /\ pc = "call"
  /\ dump \in Dumps
  /\ parsed = <<>>
  /\ ResolveIdle /\ GuardIdle /\ ImpactIdle /\ SystemIdle

\* analyze_file, then flatten_symbols on its record
AnalyzeFile ==
  /\ pc = "call"
  /\ pc' = "return"
  /\ parsed' = analyze_dump(AbsPath(1), dump)
  /\ symbols' = flatten_symbols(<<analyze_dump(AbsPath(1), dump)>>)
  /\ UNCHANGED <<dump, calls, edges, guardVars, impactVars, systemVars>>

ExtractNext == AnalyzeFile

SpecExtract == ExtractInit /\ [][ExtractNext]_vars

Declarations == { i \in DOMAIN dump : dump[i].decl # "none" }

\* C16: whatever the dump declares, the symbols list holds no two entries
\* with the same id.
C16_IdsUnique ==
  pc = "return" => \A i, j \in DOMAIN symbols : symbols[i].id = symbols[j].id => i = j

\* two declarations of variable count on one source line, at different
\* columns, both in the symbols list under one id
C16_SharedId ==
  /\ pc = "return"
  /\ \E i, j \in Declarations :
       /\ dump[i].decl = "var" /\ dump[j].decl = "var"
       /\ dump[i].line = dump[j].line /\ dump[i].col # dump[j].col
  /\ Len(symbols) = Cardinality(Declarations)
  /\ \E i, j \in DOMAIN symbols :
       i # j /\ symbols[i].id = symbols[j].id /\ symbols[i].kind = "variable"

\* every declaration is listed, and two entries share an id only when they
\* agree on container, signature and start line
C16_IdFromFourParts ==
  pc = "return" =>
    /\ Len(symbols) = Cardinality(Declarations)
    /\ \A i, j \in DOMAIN symbols :
         symbols[i].id = symbols[j].id
           <=> /\ symbols[i].container = symbols[j].container
               /\ symbols[i].signature = symbols[j].signature
               /\ symbols[i].line = symbols[j].line

---------------------------------------------------------------------------
(* Specification SpecNormalize: save_graph on one in-memory graph whose    *)
(* five lists are permuted between the saves.                              *)

NormalizeCall(source, callee, arity, line) ==
  [ source_symbol_id |-> source, callee_name |-> callee, qualifier |-> None,
    arity |-> arity, line |-> line ]

\* A.tick calls helper(); B.helper calls missing(x) and missing(x, y) on one
\* source line, both external; B.run calls tick()
NormalizeCallPool ==
  << NormalizeCall(symbol_id(1, 2), "helper", 0, 1),
     NormalizeCall(symbol_id(2, 1), "missing", 1, 2),
     NormalizeCall(symbol_id(2, 1), "missing", 2, 2),
     NormalizeCall(symbol_id(2, 2), "tick", 0, 3) >>

\* A.run assigns self.count and a bare count on one source line
NormalizeMutations ==
  << [ source_symbol_id |-> symbol_id(1, 1), target_name |-> "count",
       target_kind |-> "property", line |-> 1, confidence |-> 8000 ],
     [ source_symbol_id |-> symbol_id(1, 1), target_name |-> "count",
       target_kind |-> "variable", line |-> 1, confidence |-> 8000 ] >>

\* the graph a build holds before save_graph, for the chosen calls
MemoryGraph(chosen) ==
  LET cs == flatten_calls(<< [calls |-> SelectSeq(NormalizeCallPool,
                                                  LAMBDA c : c.line \in chosen)] >>)
      edges_calls == resolve_calls(QuerySymbols, cs)
      edges_mutations == resolve_mutation_edges(QuerySymbols, NormalizeMutations)
      culture_by_file == [ a \in { AbsPath(1), AbsPath(2) } |-> classify_file(RelOfAbs(a), <<>>) ]
  IN  [ meta |-> [ schema_version |-> SCHEMA_VERSION, generated_at |-> 1 ],
        files |-> QueryFiles,
        symbols |-> QuerySymbols,
        edges_calls |-> edges_calls,
        edges_mutations |-> edges_mutations,
        edges_depends_on |-> build_dependency_edges(QuerySymbols, edges_calls),
        impact |-> compute_impact(QuerySymbols, edges_calls, edges_mutations, culture_by_file),
        indexes |-> build_indexes(QuerySymbols, QueryFiles, edges_calls) ]

OrderedLists == {"files", "symbols", "edges_calls", "edges_mutations", "edges_depends_on"}

NormalizeInit ==
  /\ PureIdle
  /\ repo = <<>> /\ git = NoGit /\ cacheFile = Missing /\ clock = 0 /\ stats = NoStats
  /\ StoreIdle /\ ServerIdle
  /\ \E chosen \in {{1, 2, 3}, {2}, {1, 3}} :
       last = [kind |-> "memory", graph |-> MemoryGraph(chosen), saved |-> Missing]

\* list[i], list[i + 1] = list[i + 1], list[i]
SwapEntries(list, i) ==
  [ k \in DOMAIN list |-> IF k = i THEN list[i + 1] ELSE IF k = i + 1 THEN list[i] ELSE list[k] ]

\* the same graph with two neighbours of one list exchanged
Permute(field, i) ==
  /\ last.kind = "memory"
  /\ i < Len(last.graph[field])
  /\ last' = [last EXCEPT !.graph[field] = SwapEntries(@, i)]
  /\ UNCHANGED <<pc, pureVars, repo, git, cacheFile, clock, stats, storeVars, serverVars>>

\* save_graph: the normalized graph written to graph.json; the document the
\* file held before is kept in last.saved
SaveGraph ==
  /\ last.kind = "memory"
  /\ graphFile' = normalize_graph(last.graph)
  /\ graphMtime' = clock
  /\ last' = [last EXCEPT !.saved = graphFile]
  /\ UNCHANGED <<pc, pureVars, repo, git, cacheFile, clock, stats, serverVars>>

NormalizeNext ==
  \/ \E field \in OrderedLists, i \in 1..3 : Permute(field, i)
  \/ SaveGraph

SpecNormalize == NormalizeInit /\ [][NormalizeNext]_vars

SavedTwice == last.kind = "memory" /\ last.saved # Missing /\ graphFile # Missing

\* the positions of a list whose entries agree on the sort key with another
TiedCalls(list) ==
  { i \in DOMAIN list : \E j \in DOMAIN list : j # i /\ CallEdgeKey(list[j]) = CallEdgeKey(list[i]) }
TiedMutations(list) ==
  { i \in DOMAIN list :
      \E j \in DOMAIN list : j # i /\ NormalMutationKey(list[j]) = NormalMutationKey(list[i]) }

\* C17: whatever the order of the five lists of the graph in memory,
\* save_graph writes the same document.
C17_OrderIndependent ==
  SavedTwice => graphFile = last.saved

\* two saves of one graph, the second after a permutation, left two
\* documents whose call edges differ in the order of two edges that agree on
\* the sort key and differ in arity
C17_TieKeepsInputOrder ==
  /\ SavedTwice
  /\ graphFile.edges_calls # last.saved.edges_calls
  /\ \E i \in TiedCalls(graphFile.edges_calls) :
       /\ i + 1 \in TiedCalls(graphFile.edges_calls)
       /\ graphFile.edges_calls[i].arity # graphFile.edges_calls[i + 1].arity
       /\ last.saved.edges_calls = SwapEntries(graphFile.edges_calls, i)

\* the two documents agree on everything but the order of entries that
\* agree on the sort key
C17_SameUpToTies ==
  SavedTwice =>
    /\ \A f \in DOMAIN graphFile \ {"edges_calls", "edges_mutations"} :
         graphFile[f] = last.saved[f]
    /\ \A i \in DOMAIN graphFile.edges_calls :
         \/ graphFile.edges_calls[i] = last.saved.edges_calls[i]
         \/ i \in TiedCalls(graphFile.edges_calls)
    /\ \A i \in DOMAIN graphFile.edges_mutations :
         \/ graphFile.edges_mutations[i] = last.saved.edges_mutations[i]
         \/ i \in TiedMutations(graphFile.edges_mutations)

---------------------------------------------------------------------------
(* Specification SpecClassify: classify_file on one path of the table and  *)
(* one extraction record.                                                  *)

MaxNames == 2

TypeNamePool == {"Engine", "AppTests", "AppConfig", "Constants"}
FunctionNamePool == {"run", "body", "makeUI", "Render"}

NameLists(pool) == UNION { [1..n -> [name : pool]] : n \in 0..MaxNames }

ClassifyInit ==
  /\ pc = "call"
  /\ ResolveIdle /\ GuardIdle /\ ImpactIdle /\ SystemIdle
  /\ dump = <<>>
  /\ \E p \in RelPaths, types \in NameLists(TypeNamePool), functions \in NameLists(FunctionNamePool) :
       parsed = [file |-> AbsPath(p), types |-> types, functions |-> functions]

\* the build's call: the culture of the file of one extraction record
ClassifyFile ==
  /\ pc = "call"
  /\ pc' = "return"
  /\ culture' = classify_file(RelOfAbs(parsed.file), parsed)
  /\ UNCHANGED <<resolveVars, metrics, verdict, impactVars, extractVars, systemVars>>

ClassifyNext == ClassifyFile

SpecClassify == ClassifyInit /\ [][ClassifyNext]_vars

\* the text cut at every "/"
RECURSIVE SplitPath(_)
SplitPath(text) ==
  IF ~HasSubstring(text, "/") THEN <<text>>
  ELSE LET i == CHOOSE k \in 1..Len(text) :
                  CharAt(text, k) = "/" /\ \A m \in 1..(k - 1) : CharAt(text, m) # "/"
       IN  <<SubSeq(text, 1, i - 1)>> \o SplitPath(SubSeq(text, i + 1, Len(text)))

\* the directories the classified file lies in and its file name, lower-cased
ClassifiedSegments == SplitPath(LowerText(ReplaceBackslash(RelPath(RelOfAbs(parsed.file)))))
ClassifiedDirectories ==
  { ClassifiedSegments[i] : i \in 1..(Len(ClassifiedSegments) - 1) }
ClassifiedFileName == ClassifiedSegments[Len(ClassifiedSegments)]

TestPath ==
  \/ "tests" \in ClassifiedDirectories
  \/ EndsWith(ClassifiedFileName, "tests.swift")
  \/ EndsWith(ClassifiedFileName, "test.swift")
ViewPath == ClassifiedDirectories \cap {"ui", "views"} # {}
LawPath == ClassifiedDirectories \cap {"config", "configs", "policy", "rules"} # {}

\* policy/ or rules/ is the first directory of the path and no other
\* directory of the path is a config, policy or rules directory
LawPathAtTop ==
  /\ ClassifiedSegments[1] \in {"policy", "rules"}
  /\ { ClassifiedSegments[i] : i \in 2..(Len(ClassifiedSegments) - 1) }
       \cap {"config", "configs", "policy", "rules"} = {}

PathCultures ==
  (IF TestPath THEN {"Auditor"} ELSE {})
  \cup (IF ViewPath THEN {"View"} ELSE {})
  \cup (IF LawPath THEN {"Law"} ELSE {})

DeclaredTypes == { parsed.types[i].name : i \in DOMAIN parsed.types }
DeclaredFunctions == { parsed.functions[i].name : i \in DOMAIN parsed.functions }

TestsType == \E n \in DeclaredTypes : EndsWith(n, "Tests")
LawType == \E n \in DeclaredTypes : EndsWith(n, "Config") \/ EndsWith(n, "Constants")
ViewFunction == \E n \in DeclaredFunctions : LowerText(n) \in {"body", "render", "makeui"}

ShapeCultures ==
  (IF TestsType THEN {"Auditor"} ELSE {})
  \cup (IF LawType THEN {"Law"} ELSE {})
  \cup (IF ViewFunction THEN {"View"} ELSE {})

\* C19: the result is one of the four cultures; a file in a test, UI/view or
\* config/policy/rules directory (or with a test file name) gets the culture
\* of a pattern its path matches whatever it declares; the declared names
\* decide only when no path pattern matches; with neither, Citizen.
C19_PathRuleWins ==
  pc = "return" =>
    /\ culture \in Cultures
    /\ PathCultures # {} => culture \in PathCultures
    /\ PathCultures = {} /\ ShapeCultures # {} => culture \in ShapeCultures
    /\ PathCultures = {} /\ ShapeCultures = {} => culture = "Citizen"

\* a file in a top-level Policy/ or rules/ directory that declares nothing
\* of a Law shape is not classified Law
C19_TopLevelPolicyMissed ==
  /\ pc = "return"
  /\ LawPathAtTop /\ PathCultures = {"Law"}
  /\ ~LawType
  /\ culture # "Law"

\* the order in which the rules are tried: tests, UI/views, config (policy
\* and rules only below the first directory), then a Tests type, a Config
\* or Constants type, a body / render / makeUI function in any case, Citizen
C19_RuleOrder ==
  pc = "return" =>
    culture = IF TestPath THEN "Auditor"
              ELSE IF ViewPath THEN "View"
              ELSE IF LawPath /\ ~LawPathAtTop THEN "Law"
              ELSE IF TestsType THEN "Auditor"
              ELSE IF LawType THEN "Law"
              ELSE IF ViewFunction THEN "View"
              ELSE "Citizen"

---------------------------------------------------------------------------
(* Specification SpecMutate: _resolve_mutation_edges on one symbol table   *)
(* and the mutation events of one extraction record.                       *)

MaxMutations == 2

MutationSymbol(id, name, kind, container, p) ==
  [ id |-> id, name |-> name, kind |-> kind, container |-> container, file |-> AbsPath(p),
    arity |-> 0 ]

\* in file 1: A.run, the global function tick, a function A.count, the
\* variables A.count (declared twice), B.count and C.count; in file 2 a
\* variable A.count
MutationSymbolPool ==
  << MutationSymbol(11, "run", "function", "A", 1),
     MutationSymbol(12, "tick", "function", "global", 1),
     MutationSymbol(13, "count", "variable", "A", 1),
     MutationSymbol(14, "count", "variable", "A", 1),
     MutationSymbol(15, "count", "variable", "B", 1),
     MutationSymbol(16, "count", "variable", "C", 1),
     MutationSymbol(17, "count", "function", "A", 1),
     MutationSymbol(21, "count", "variable", "A", 2) >>

MutationSymbolTables ==
  { SelectSeq(MutationSymbolPool, LAMBDA x : x.id \in ids) :
      ids \in SUBSET { MutationSymbolPool[i].id : i \in DOMAIN MutationSymbolPool } }

\* the events of the extractor without their line; 99 is the id of no symbol
MutationShapes ==
  [ source_symbol_id : {11, 12, 99}, target_name : {"count"}, target_kind : {"variable"},
    confidence : {8000} ]
  \cup [ source_symbol_id : {11}, target_name : {"missing"}, target_kind : {"property"},
         confidence : {8000, 5000} ]

\* the i-th event of a list is on its own source line
MutationLine(i) == 20 + i

MutationLists ==
  UNION { { [i \in 1..n |-> shapes[i] @@ [line |-> MutationLine(i)]] :
              shapes \in [1..n -> MutationShapes] } : n \in 1..MaxMutations }

MutateInit ==
  /\ pc = "call"
  /\ symbols \in MutationSymbolTables
  /\ calls = <<>> /\ edges = <<>>
  /\ dump = <<>>
  /\ \E mutations \in MutationLists : parsed = [mutations |-> mutations]
  /\ GuardIdle /\ ImpactIdle /\ SystemIdle

ResolveMutations ==
  /\ pc = "call"
  /\ pc' = "return"
  /\ edges' = resolve_mutation_edges(symbols, flatten_mutations(<<parsed>>))
  /\ UNCHANGED <<symbols, calls, guardVars, impactVars, extractVars, systemVars>>

MutateNext == ResolveMutations

SpecMutate == MutateInit /\ [][MutateNext]_vars

\* the symbols of the table that are variables of the file of symbol src and
\* named name, in container src.container or in any
VariablesNamed(src, name, same_container) ==
  { i \in DOMAIN symbols :
      /\ symbols[i].kind = "variable"
      /\ symbols[i].file = src.file
      /\ symbols[i].name = name
      /\ same_container => symbols[i].container = src.container }

CandidateSet(event) ==
  LET src == symbols[CHOOSE i \in DOMAIN symbols : symbols[i].id = event.source_symbol_id]
      exact == VariablesNamed(src, event.target_name, TRUE)
  IN  { symbols[i].id : i \in IF exact # {} THEN exact
                                ELSE VariablesNamed(src, event.target_name, FALSE) }

MutationFits(e, event, ConfOK(_, _)) ==
  LET cands == CandidateSet(event)
      n == Cardinality(cands)
  IN  /\ e.source = event.source_symbol_id
      /\ e.target_name = event.target_name
      /\ Range(e.target_candidates) = cands /\ Len(e.target_candidates) = n
      /\ n = 1 => /\ e.resolution = "resolved" /\ e.confidence = Scale
                  /\ e.target_symbol \in cands
      /\ n >= 2 => /\ e.resolution = "ambiguous" /\ ConfOK(e.confidence, n)
                   /\ e.target_symbol = NullId
      /\ n = 0 => /\ e.resolution = "external" /\ e.confidence = event.confidence
                  /\ e.target_symbol = NullId

SourcedEvents ==
  { i \in DOMAIN parsed.mutations : parsed.mutations[i].source_symbol_id \in SymbolIds(symbols) }

OneEdgePerMutation(ConfOK(_, _)) ==
  pc = "return" =>
    /\ Len(edges) = Cardinality(SourcedEvents)
    /\ \A i \in SourcedEvents :
         /\ Cardinality(EdgesOfLine(parsed.mutations[i].line)) = 1
         /\ \A j \in EdgesOfLine(parsed.mutations[i].line) :
              MutationFits(edges[j], parsed.mutations[i], ConfOK)

\* C20 as stated: for every mutation event whose source is a symbol, the
\* candidates are the variables of the source's file with the source's
\* container and the target name, else all variables of that file with the
\* name; one candidate gives 'resolved' with confidence 1.0, n >= 2 give
\* 'ambiguous' with no target and confidence exactly max(0.1, 1/n), none
\* gives 'external' with the event's own confidence and no target.
C20_ExactConfidence == OneEdgePerMutation(ConfExactInverse)

\* C20 amended: as above, but the confidence of an ambiguous edge is
\* max(0.1, 1/n rounded to 4 decimals), 0.3333 for n = 3.
C20_RoundedConfidence == OneEdgePerMutation(ConfRoundedInverse)

\* an assignment to count from the global function tick with the three
\* variables A.count, B.count and C.count in its file and one in another
\* file: an ambiguous edge with three candidates and confidence 0.3333
C20_Witness ==
  /\ pc = "return"
  /\ \E j \in DOMAIN edges :
       /\ edges[j].source = 12
       /\ edges[j].resolution = "ambiguous"
       /\ Len(edges[j].target_candidates) = 3
       /\ edges[j].confidence = 3333
       /\ edges[j].target_symbol = NullId
  /\ 21 \in SymbolIds(symbols) /\ 17 \in SymbolIds(symbols)

\* an event resolved in the source's own container although other
\* containers of the file declare the name, next to an external one and to
\* an event that is skipped
C20_WitnessNarrowed ==
  /\ pc = "return"
  /\ {15, 16, 17} \subseteq SymbolIds(symbols)
  /\ \E j \in DOMAIN edges :
       /\ edges[j].source = 11 /\ edges[j].resolution = "resolved"
       /\ edges[j].target_symbol = 13
  /\ Len(edges) < Len(parsed.mutations)

---------------------------------------------------------------------------
(* Specification SpecPipeline: the build's derivation of a graph from the  *)
(* extraction record of one file, and refactor_guardrail on a symbol of it. *)

PipelineSymbol(p, rank, name, kind, container) ==
  [ id |-> symbol_id(p, rank), name |-> name, kind |-> kind, container |-> container,
    arity |-> 0, file |-> AbsPath(p), visibility |-> "internal", line |-> rank ]

\* A.run, A.tick, B.tick and C.helper
PipelineFunctions(p) ==
  << PipelineSymbol(p, 1, "run", "function", "A"),
     PipelineSymbol(p, 2, "tick", "function", "A"),
     PipelineSymbol(p, 3, "tick", "function", "B"),
     PipelineSymbol(p, 4, "helper", "function", "C") >>

\* two variables count declared in A
PipelineVariables(p) ==
  << PipelineSymbol(p, 5, "count", "variable", "A"),
     PipelineSymbol(p, 6, "count", "variable", "A") >>

\* run calls tick(), helper calls missing()
PipelineCalls(p) ==
  << [ source_symbol_id |-> symbol_id(p, 1), callee_name |-> "tick", qualifier |-> None,
       arity |-> 0, line |-> 1 ],
     [ source_symbol_id |-> symbol_id(p, 4), callee_name |-> "missing", qualifier |-> None,
       arity |-> 0, line |-> 4 ] >>

\* run assigns to count and to B, which no file declares; helper assigns to
\* count
PipelineMutations(p) ==
  << [ source_symbol_id |-> symbol_id(p, 1), target_name |-> "count",
       target_kind |-> "variable", confidence |-> (8 * Scale) \div 10, line |-> 2 ],
     [ source_symbol_id |-> symbol_id(p, 1), target_name |-> "B",
       target_kind |-> "variable", confidence |-> (8 * Scale) \div 10, line |-> 3 ],
     [ source_symbol_id |-> symbol_id(p, 4), target_name |-> "count",
       target_kind |-> "variable", confidence |-> (8 * Scale) \div 10, line |-> 5 ] >>

\* the record analyze_file returns for file p when its text declares the
\* chosen functions and variables and holds the chosen calls and assignments
\* of the declared functions
PipelineAnalysis(p, fs, vs, cs, ms) ==
  LET functions == SelectSeq(PipelineFunctions(p), LAMBDA x : x.line \in fs)
      declared == { functions[i].id : i \in DOMAIN functions }
  IN  [ parser_version |-> PARSER_VERSION,
        file |-> AbsPath(p),
        rel_path |-> p,
        hash |-> Sha256(<<p, fs, vs, cs, ms>>),
        types |-> <<>>,
        functions |-> functions,
        variables |-> SelectSeq(PipelineVariables(p), LAMBDA x : x.line \in vs),
        calls |-> SelectSeq(PipelineCalls(p),
                            LAMBDA c : c.line \in cs /\ c.source_symbol_id \in declared),
        mutations |-> SelectSeq(PipelineMutations(p),
                                LAMBDA m : m.line \in ms /\ m.source_symbol_id \in declared) ]

PipelineInit ==
  /\ pc = "call"
  /\ ResolveIdle /\ GuardIdle /\ ImpactIdle /\ SystemIdle
  /\ dump = <<>>
  /\ \E p \in 1..3, fs \in SUBSET {1, 2, 3, 4}, vs \in SUBSET {5, 6},
        cs \in SUBSET {1, 4}, ms \in SUBSET {2, 3, 5} :
       parsed = << PipelineAnalysis(p, fs, vs, cs, ms) >>

\* build from the classification of the files to save_graph
DeriveGraph ==
  /\ pc = "call"
  /\ pc' = "built"
  /\ LET culture_by_file == [ a \in { parsed[i].file : i \in DOMAIN parsed } |->
                                classify_file(RelOfAbs(a),
                                              parsed[CHOOSE i \in DOMAIN parsed : parsed[i].file = a]) ]
         analyses == MapSeq(parsed, LAMBDA a : Annotate(a, culture_by_file[a.file]))
     IN  graphFile' = normalize_graph(
                        [ meta |-> [ schema_version |-> SCHEMA_VERSION, generated_at |-> clock ] ]
                        @@ derive_graph(analyses, culture_by_file))
  /\ graphMtime' = clock
  /\ UNCHANGED <<pureVars, buildVars, serverVars>>

\* refactor_guardrail on a symbol of the graph
GuardSymbol(sid) ==
  /\ pc = "built"
  /\ pc' = "return"
  /\ sid \in SymbolIds(graphFile.symbols)
  /\ verdict' = engine_refactor_guardrail(GraphQueryEngine(graphFile), sid).result
  /\ UNCHANGED <<resolveVars, culture, metrics, impactVars, extractVars, systemVars>>

PipelineNext ==
  \/ DeriveGraph
  \/ \E p \in 1..3, rank \in 1..6 : GuardSymbol(symbol_id(p, rank))

SpecPipeline == PipelineInit /\ [][PipelineNext]_vars

Answered == pc = "return"

\* the unresolved call edges the answered symbol is the source or a
\* candidate of, and the ambiguous mutation edges it is the source of
TouchedUnresolvedCalls ==
  { i \in DOMAIN graphFile.edges_calls :
      /\ graphFile.edges_calls[i].resolution \in {"ambiguous", "external"}
      /\ \/ graphFile.edges_calls[i].source = verdict.symbol_id
         \/ verdict.symbol_id \in Range(graphFile.edges_calls[i].target_candidates) }

AmbiguousMutationsOf ==
  { i \in DOMAIN graphFile.edges_mutations :
      /\ graphFile.edges_mutations[i].resolution = "ambiguous"
      /\ graphFile.edges_mutations[i].source = verdict.symbol_id
      /\ 2 * graphFile.edges_mutations[i].confidence <= Scale }

\* C22: a non-Auditor symbol that is the source of an ambiguous mutation
\* edge and touches no unresolved call edge gets high_risk_manual_review.
C22_MutationEvidenceCounts ==
  (Answered /\ verdict.culture # "Auditor" /\ AmbiguousMutationsOf # {}
     /\ TouchedUnresolvedCalls = {})
    => verdict.guardrail = "high_risk_manual_review"

\* a Citizen function with an ambiguous assignment to count and no
\* unresolved call has been answered allow_change_with_tests, with
\* unresolved_count 0
C22_MutationEvidenceIgnored ==
  /\ Answered /\ verdict.culture = "Citizen"
  /\ AmbiguousMutationsOf # {} /\ TouchedUnresolvedCalls = {}
  /\ verdict.unresolved_count = 0
  /\ verdict.guardrail = "allow_change_with_tests"

\* the unresolved count of the impact record is the number of times the
\* symbol touches an unresolved call edge; mutation edges add nothing
C22_CountIsCallsOnly ==
  Answered => verdict.unresolved_count = Cardinality(TouchedUnresolvedCalls)

\* C30: every unresolved call edge of a derived graph has confidence at most
\* 0.5; an impact record with unresolved_count > 0 has
\* unresolved_min_confidence below 0.75; and every non-Auditor symbol that
\* is the source of an unresolved call or a candidate of an ambiguous one
\* gets high_risk_manual_review.
C30_UnresolvedCallsFailClosed ==
  pc \in {"built", "return"} =>
    /\ \A i \in DOMAIN graphFile.edges_calls :
         graphFile.edges_calls[i].resolution \in {"ambiguous", "external"}
           => 2 * graphFile.edges_calls[i].confidence <= Scale
    /\ \A s \in DOMAIN graphFile.impact.symbols :
         graphFile.impact.symbols[s].unresolved_count > 0
           => 4 * graphFile.impact.symbols[s].unresolved_min_confidence < 3 * Scale
    /\ (Answered /\ verdict.culture # "Auditor" /\ TouchedUnresolvedCalls # {})
         => verdict.guardrail = "high_risk_manual_review"

\* a Law function that is only a candidate of an ambiguous call has been
\* answered high_risk_manual_review
C30_Witness ==
  /\ Answered /\ verdict.culture = "Law"
  /\ TouchedUnresolvedCalls # {}
  /\ \A i \in TouchedUnresolvedCalls :
       /\ graphFile.edges_calls[i].resolution = "ambiguous"
       /\ graphFile.edges_calls[i].source # verdict.symbol_id
  /\ verdict.guardrail = "high_risk_manual_review"

\* the source of an external call, of confidence 0, answered the same way
C30_WitnessExternal ==
  /\ Answered /\ verdict.culture = "Citizen"
  /\ \E i \in TouchedUnresolvedCalls :
       /\ graphFile.edges_calls[i].resolution = "external"
       /\ graphFile.edges_calls[i].confidence = 0
  /\ verdict.guardrail = "high_risk_manual_review"

---------------------------------------------------------------------------
(* Specification SpecCallers: get_callers and get_callees on graphs with   *)
(* call cycles and a function that calls itself.                           *)

\* the calls of QueryCallPool, then A.tick calling itself and A.run calling
\* A.tick (a cycle of two with the first call)
CycleCallPool ==
  QueryCallPool
  \o << QueryCall(symbol_id(1, 2), "tick", "A", 6),
        QueryCall(symbol_id(1, 1), "tick", "A", 7) >>

\* the document a build persists for QuerySymbols and the chosen calls
CycleGraph(chosen) ==
  LET cs == flatten_calls(<< [calls |-> SelectSeq(CycleCallPool, LAMBDA c : c.line \in chosen)] >>)
      edges_calls == resolve_calls(QuerySymbols, cs)
      culture_by_file == [ a \in { AbsPath(1), AbsPath(2) } |-> classify_file(RelOfAbs(a), <<>>) ]
  IN  normalize_graph(
        [ meta |-> [ schema_version |-> SCHEMA_VERSION, generated_at |-> 1 ],
          files |-> QueryFiles,
          symbols |-> QuerySymbols,
          edges_calls |-> edges_calls,
          edges_mutations |-> <<>>,
          edges_depends_on |-> build_dependency_edges(QuerySymbols, edges_calls),
          impact |-> compute_impact(QuerySymbols, edges_calls, <<>>, culture_by_file),
          indexes |-> build_indexes(QuerySymbols, QueryFiles, edges_calls) ])

CycleGraphs == { CycleGraph(chosen) : chosen \in { {1, 2, 3, 4, 6, 7}, {1, 6, 7}, {2, 3, 4, 5}, {6} } }

CallersInit ==
  /\ PureIdle /\ BuildIdle
  /\ graphFile \in CycleGraphs /\ graphMtime = 1
  /\ ServerIdle

CallersNext ==
  \E name \in {"get_callers", "get_callees"}, sid \in QueryIds, depth \in DepthArgs :
    CallEngine(name, sid, depth)

SpecCallers == CallersInit /\ [][CallersNext]_vars

EngineAnswered == request.via = "engine" /\ response.raised = "no"

\* one step from the set S: the callers of its members for get_callers, the
\* callees for get_callees
CallStep(S) ==
  IF request.name = "get_callers"
  THEN { e[1] : e \in { x \in DirectedEdges : x[2] \in S } }
  ELSE { e[2] : e \in { x \in DirectedEdges : x[1] \in S } }

\* the symbols joined to the root by a path of at most k resolved call edges
RECURSIVE CallWithin(_)
CallWithin(k) ==
  IF k = 0 THEN {request.symbol_id}
  ELSE CallWithin(k - 1) \cup CallStep(CallWithin(k - 1))

\* the length of the shortest path between the root and v
CallDistance(v) ==
  CHOOSE k \in 1..request.depth : v \in CallWithin(k) /\ v \notin CallWithin(k - 1)

NodeBefore(a, b) ==
  \/ a.distance < b.distance
  \/ a.distance = b.distance /\ a.impact_score > b.impact_score
  \/ a.distance = b.distance /\ a.impact_score = b.impact_score /\ a.id < b.id

\* C24: get_callers / get_callees with depth d answer with every symbol
\* other than the root joined to it by a path of 1 to d resolved call edges,
\* each once and with the length of its shortest path, ordered by (distance
\* ascending, impact score descending, id ascending); the root is never
\* among the nodes.
C24_NodesExact ==
  EngineAnswered =>
    LET nodes == response.result.nodes
    IN  /\ { nodes[i].id : i \in DOMAIN nodes } = CallWithin(request.depth) \ {request.symbol_id}
        /\ \A i, j \in DOMAIN nodes : nodes[i].id = nodes[j].id => i = j
        /\ \A i \in DOMAIN nodes :
             /\ nodes[i].distance = CallDistance(nodes[i].id)
             /\ nodes[i].impact_score = ImpactScore(nodes[i].id)
        /\ \A i \in 1..(Len(nodes) - 1) : NodeBefore(nodes[i], nodes[i + 1])

\* get_callers with depth 2 or more on A.tick, which calls itself and lies
\* on a cycle with A.run: A.run is answered at distance 1, A.tick is not
\* answered
C24_Witness ==
  /\ EngineAnswered /\ request.name = "get_callers"
  /\ request.symbol_id = symbol_id(1, 2) /\ request.depth >= 2
  /\ <<symbol_id(1, 2), symbol_id(1, 2)>> \in DirectedEdges
  /\ <<symbol_id(1, 1), symbol_id(1, 2)>> \in DirectedEdges
  /\ <<symbol_id(1, 2), symbol_id(1, 1)>> \in DirectedEdges
  /\ \E i \in DOMAIN response.result.nodes :
       response.result.nodes[i].id = symbol_id(1, 1) /\ response.result.nodes[i].distance = 1
  /\ \A i \in DOMAIN response.result.nodes : response.result.nodes[i].id # symbol_id(1, 2)
  /\ Len(response.result.nodes) >= 2

\* two nodes at one distance are answered, the one of higher score first
C24_WitnessOrder ==
  /\ EngineAnswered
  /\ \E i \in 1..(Len(response.result.nodes) - 1) :
       /\ response.result.nodes[i].distance = response.result.nodes[i + 1].distance
       /\ response.result.nodes[i].impact_score >= response.result.nodes[i + 1].impact_score

\* a graph document has been persisted
Persisted == pc # "call"

KeyOrdered(keys) == \A i \in 1..(Len(keys) - 1) : ~LexLess(keys[i + 1], keys[i])

\* C23: in the persisted graph edges_calls and edges_mutations are both in
\* non-decreasing order of (source, resolution, target id or empty string,
\* target name, line).
C23_EdgesInKeyOrder ==
  Persisted =>
    /\ KeyOrdered([ i \in DOMAIN graphFile.edges_calls |-> CallEdgeKey(graphFile.edges_calls[i]) ])
    /\ KeyOrdered([ i \in DOMAIN graphFile.edges_mutations |->
                      MutationEdgeKey(graphFile.edges_mutations[i]) ])

\* the persisted mutation edges of one source hold an external edge before
\* an ambiguous one
C23_ExternalBeforeAmbiguous ==
  /\ Persisted
  /\ \E i \in 1..(Len(graphFile.edges_mutations) - 1) :
       /\ graphFile.edges_mutations[i].source = graphFile.edges_mutations[i + 1].source
       /\ graphFile.edges_mutations[i].resolution = "external"
       /\ graphFile.edges_mutations[i + 1].resolution = "ambiguous"

\* what holds: the call edges are in the order of the stated key and the
\* mutation edges in the order of (source, target id or empty string,
\* target name, line)
C23_OrderOfNormalize ==
  Persisted =>
    /\ KeyOrdered([ i \in DOMAIN graphFile.edges_calls |-> CallEdgeKey(graphFile.edges_calls[i]) ])
    /\ KeyOrdered([ i \in DOMAIN graphFile.edges_mutations |->
                      NormalMutationKey(graphFile.edges_mutations[i]) ])

---------------------------------------------------------------------------
(* Specification SpecScan: the loop of analyze_file over the lines of one  *)
(* dump, one line per step, then the return of the sorted record.          *)

MaxScanLines == 5

\* type A and function run, each opening a subtree; function tick on one
\* line; variable count; a call of helper that opens a subtree and names no
\* line; an assignment to count; lines that close one or two subtrees
ScanLinePool ==
  { DumpLine("type", "A", 1, 1, 1),
    DumpLine("func", "run", 2, 5, 1),
    DumpLine("func", "tick", 3, 5, 0),
    DumpLine("var", "count", 4, 9, 0),
    DumpLine("call", "helper", 0, 0, 1),
    DumpLine("assign", "count", 5, 9, 0),
    DumpLine("none", "", 0, 0, -1),
    DumpLine("none", "", 0, 0, -2) }

\* the number of "(" less the number of ")" on the first k lines
RECURSIVE BalanceUpTo(_, _)
BalanceUpTo(lines, k) == IF k = 0 THEN 0 ELSE BalanceUpTo(lines, k - 1) + lines[k].balance

\* a dump closes no parenthesis it has not opened
ScanDumps ==
  UNION { { lines \in [1..n -> ScanLinePool] : \A k \in 1..n : BalanceUpTo(lines, k) >= 0 } :
            n \in 0..MaxScanLines }

ScanInit ==
  /\ pc = "scan"
  /\ dump \in ScanDumps
  /\ parsed = [idx |-> 0, st |-> ScanStart]
  /\ ResolveIdle /\ GuardIdle /\ ImpactIdle /\ SystemIdle

\* one iteration of the loop
ScanStep ==
  /\ pc = "scan"
  /\ parsed.idx < Len(dump)
  /\ parsed' = [idx |-> parsed.idx + 1,
                st |-> ScanLine(parsed.st, dump[parsed.idx + 1], AbsPath(1))]
  /\ UNCHANGED <<pc, dump, resolveVars, guardVars, impactVars, systemVars>>

\* the sorts after the loop and the return
ScanReturn ==
  /\ pc = "scan"
  /\ parsed.idx = Len(dump)
  /\ pc' = "return"
  /\ parsed' = scan_result(AbsPath(1), parsed.st)
  /\ UNCHANGED <<dump, resolveVars, guardVars, impactVars, systemVars>>

ScanNext == ScanStep \/ ScanReturn

SpecScan == ScanInit /\ [][ScanNext]_vars

Scanning == pc = "scan"

\* line k lies in the subtree of the declaration on line i: the balance
\* stayed above its level before line i after each of the lines i..k-1
InSubtree(i, k) ==
  /\ i <= k
  /\ dump[i].decl \in {"type", "func"} /\ dump[i].balance > 0
  /\ \A j \in i..(k - 1) : BalanceUpTo(dump, j) > BalanceUpTo(dump, i - 1)

\* the innermost declaration of the kind above line k whose subtree holds
\* line k, 0 without one
Enclosing(k, decl) ==
  LET open == { i \in 1..(k - 1) : InSubtree(i, k) /\ dump[i].decl = decl }
  IN  IF open = {} THEN 0 ELSE CHOOSE i \in open : \A j \in open : j <= i

EnclosingName(k, decl) == dump[Enclosing(k, decl)].name

\* the container the claim gives the declaration on line k
ContainerAt(k) ==
  IF dump[k].decl = "var" /\ Enclosing(k, "func") # 0 THEN EnclosingName(k, "func")
  ELSE IF Enclosing(k, "type") # 0 THEN EnclosingName(k, "type")
  ELSE "global"

IdAt(k) == symbol_id_text(AbsPath(1), ContainerAt(k), dump[k].name, dump[k].line)

\* the lines read so far that hold an event inside an open function
EventLines(decl) ==
  { k \in 1..parsed.idx : dump[k].decl = decl /\ dump[k].name # "" /\ Enclosing(k, "func") # 0 }

\* C25: during the scan the context stack holds exactly the type and
\* function declarations whose multi-line subtree holds the line just read,
\* outermost first; every variable's container is the nearest enclosing
\* open function, else the nearest enclosing open type, else "global";
\* every call and mutation event has the nearest enclosing open function as
\* its source, a symbol of the function list, and a line outside every
\* function records no event.
C25_ContextDiscipline ==
  Scanning =>
    LET st == parsed.st
        k == parsed.idx
        open == { i \in 1..k : InSubtree(i, k) }
    IN  /\ Len(st.stack) = Cardinality(open)
        /\ \A n \in DOMAIN st.stack :
             \E i \in open :
               /\ Cardinality({ j \in open : j <= i }) = n
               /\ st.stack[n].kind = KindOf(dump[i].decl)
               /\ st.stack[n].name = dump[i].name
               /\ st.stack[n].symbol_id = IdAt(i)
        /\ { v.id : v \in Range(st.variables) } = { IdAt(i) : i \in { j \in 1..k : dump[j].decl = "var" } }
        /\ \A v \in Range(st.variables) :
             \E i \in 1..k : dump[i].decl = "var" /\ v.id = IdAt(i) /\ v.container = ContainerAt(i)
        /\ Len(st.calls) = Cardinality(EventLines("call"))
        /\ Len(st.mutations) = Cardinality(EventLines("assign"))
        /\ \A n \in DOMAIN st.calls :
             \E i \in EventLines("call") :
               /\ Cardinality({ j \in EventLines("call") : j <= i }) = n
               /\ st.calls[n].source_symbol_id = IdAt(Enclosing(i, "func"))
               /\ st.calls[n].source_symbol_id \in { f.id : f \in Range(st.functions) }
        /\ \A n \in DOMAIN st.mutations :
             \E i \in EventLines("assign") :
               /\ Cardinality({ j \in EventLines("assign") : j <= i }) = n
               /\ st.mutations[n].source_symbol_id = IdAt(Enclosing(i, "func"))
               /\ st.mutations[n].source_symbol_id \in { f.id : f \in Range(st.functions) }

\* the record returned holds the events of the scan
C25_ReturnedEvents ==
  pc = "return" =>
    /\ \A c \in Range(parsed.calls) : c.source_symbol_id \in { f.id : f \in Range(parsed.functions) }
    /\ \A m \in Range(parsed.mutations) :
         m.source_symbol_id \in { f.id : f \in Range(parsed.functions) }

\* type A, function run in it, a line closing run, then a variable whose
\* container is A and, after it, an assignment that records no event
C25_Witness ==
  /\ Scanning /\ parsed.idx = 5
  /\ dump[1].decl = "type" /\ dump[2].decl = "func" /\ dump[2].balance > 0
  /\ dump[3].balance = -1
  /\ dump[4].decl = "var" /\ dump[5].decl = "assign"
  /\ Len(parsed.st.stack) = 1 /\ parsed.st.stack[1].kind = "type"
  /\ \E v \in Range(parsed.st.variables) : v.container = "A"
  /\ parsed.st.mutations = <<>>

\* a call in run, which is declared in type A: the event's source is A.run
C25_WitnessEvent ==
  /\ Scanning /\ parsed.idx >= 3
  /\ Len(parsed.st.stack) >= 2
  /\ \E c \in Range(parsed.st.calls) :
       c.source_symbol_id = symbol_id_text(AbsPath(1), "A", "run", 2) /\ c.line = 2

====
